---- MODULE Spec2Model ----
(***************************************************************************)
(* CodeSnap: the scan / filter / extract / split pipeline of               *)
(* src/codesnap/core (scanner.py, processor.py, formatter.py).             *)
(*                                                                         *)
(* Text is a sequence of one-character strings, so that lengths, suffixes, *)
(* glob matches and concatenations are computed and not assumed.           *)
(*                                                                         *)
(* The module holds one specification per component:                       *)
(*   SpecSplit    MarkdownFormatter._split_into_parts                      *)
(*   SpecFile     _should_include_file and _process_single_file on one file *)
(*   Spec         CodeScanner.scan_directory and generate_directory_tree   *)
(*   SpecProc     FileProcessor.process_files and _process_single_file     *)
(* All of them share the variables below; a specification leaves the       *)
(* variables of the other components at their idle values.                 *)
(***************************************************************************)
EXTENDS Integers, Sequences, FiniteSets, TLC

VARIABLES
    pc,                  \* position of the orchestrating flow
    extensions,          \* ScanConfig.extensions
    exclude_dirs,        \* ScanConfig.exclude_dirs
    exclude_patterns,    \* ScanConfig.exclude_patterns
    max_file_size_mb,    \* ScanConfig.max_file_size_mb
    scan_subfolders,     \* ScanConfig.scan_subfolders
    max_tokens_per_part, \* OutputConfig.max_tokens_per_part
    fs,                  \* the directory tree under the scan root
    walk_stack,          \* os.walk: directories still to be visited
    listed,              \* os.walk: directories whose entries were listed
    files,               \* scan_directory: the file references yielded so far
    tree,                \* generate_directory_tree: the rendered lines
    candidate,           \* the file handed to _should_include_file
    included,            \* what _should_include_file returned
    process_args,        \* process_files: the submitted arguments
    futures,             \* process_files: the state of each submitted future
    workers,             \* process_files: max_workers of the pool
    results,             \* process_files: the records collected so far
    snippets,            \* _split_into_parts: its input
    parts,               \* _split_into_parts: its result
    argv,                \* the command line: the options given, with their values
    parsed_args,         \* CodeSnapCLI.run: the argparse namespace
    config_file,         \* the file named by --config, as it is on disk
    config,              \* CodeSnapCLI.config
    temp_dir,            \* whether the clone directory exists on disk
    repo_info,           \* the repo_info dictionary                
    pending,             \* the exception that is propagating, if any
    exit_code,           \* what CodeSnapCLI.run returned
    events,              \* what the run has done so far
    base_name,           \* OutputConfig.base_name
    overwrite_existing,  \* save_parts: its overwrite_existing argument
    documents,           \* format_content: the formatted parts
    disk,                \* the output directory: the content of each part file
    disk_before,         \* the output directory when save_parts was called
    created_files,       \* save_parts: the paths it lists as created
    answers,             \* save_parts: what the user answered, per part
    previous             \* the documents of the run before this one

vars == <<pc, extensions, exclude_dirs, exclude_patterns, max_file_size_mb,
          scan_subfolders, max_tokens_per_part, fs, walk_stack, listed, files, tree,
          candidate, included, process_args, futures, workers, results, snippets, parts,
          argv, parsed_args, config_file, config, temp_dir, repo_info, pending,
          exit_code, events, base_name, overwrite_existing, documents, disk, disk_before,
          created_files, answers, previous>>

configVars == <<extensions, exclude_dirs, exclude_patterns, max_file_size_mb,
                scan_subfolders, max_tokens_per_part>>
scanVars == <<fs, walk_stack, listed, files, tree>>
includeVars == <<candidate, included>>
procVars == <<process_args, futures, workers, results>>
splitVars == <<snippets, parts>>
cliVars == <<argv, parsed_args, config_file, config, temp_dir, repo_info, pending,
             exit_code, events>>
pipelineVars == <<configVars, scanVars, includeVars, procVars, splitVars>>
outVars == <<base_name, overwrite_existing, documents, disk, disk_before, created_files,
             answers, previous>>

(***************************************************************************)
(* Bounds of the model.                                                    *)
(***************************************************************************)
MaxSnippets == 3
MaxSnippetLen == 9
MaxBudget == 2

(***************************************************************************)
(* Text helpers.                                                           *)
(***************************************************************************)
RECURSIVE Concat(_)
Concat(ss) == IF ss = <<>> THEN <<>> ELSE Head(ss) \o Concat(Tail(ss))

Range(s) == {s[k] : k \in 1..Len(s)}

(***************************************************************************)
(* Token Estimator: len(text) // 4.                                        *)
(***************************************************************************)
CharsPerToken == 4

estimate_token_count(text) == Len(text) \div CharsPerToken

(***************************************************************************)
(* MarkdownFormatter._split_into_parts.                                    *)
(* The accumulator of the loop is the pair parts / current_part.           *)
(***************************************************************************)
\* Mutant: the snippet that opens a new part is forgotten.
SplitStep_DropSnippet(acc, snippet, budget) ==
    LET current_tokens == estimate_token_count(acc.current_part)
        snippet_tokens == estimate_token_count(snippet)
    IN  IF acc.current_part # <<>> /\ current_tokens + snippet_tokens > budget
        THEN [parts |-> Append(acc.parts, acc.current_part), current_part |-> <<>>]
        ELSE [parts |-> acc.parts, current_part |-> acc.current_part \o snippet]

\* Mutant: the test that the current part is non-empty is left out.
SplitStep_NoEmptyGuard(acc, snippet, budget) ==
    LET current_tokens == estimate_token_count(acc.current_part)
        snippet_tokens == estimate_token_count(snippet)
    IN  IF current_tokens + snippet_tokens > budget
        THEN [parts |-> Append(acc.parts, acc.current_part), current_part |-> snippet]
        ELSE [parts |-> acc.parts, current_part |-> acc.current_part \o snippet]

\* One iteration of the loop over the snippets.
SplitStep(acc, snippet, budget) ==
    LET current_tokens == estimate_token_count(acc.current_part)
        snippet_tokens == estimate_token_count(snippet)
    IN  IF acc.current_part # <<>> /\ current_tokens + snippet_tokens > budget
        THEN [parts |-> Append(acc.parts, acc.current_part), current_part |-> snippet]
        ELSE [parts |-> acc.parts, current_part |-> acc.current_part \o snippet]

RECURSIVE SplitLoop(_, _, _)
SplitLoop(acc, rest, budget) ==
    IF rest = <<>> THEN acc
    ELSE SplitLoop(SplitStep(acc, Head(rest), budget), Tail(rest), budget)

split_into_parts(snips, budget) ==
    LET acc == SplitLoop([parts |-> <<>>, current_part |-> <<>>], snips, budget)
    IN  IF acc.current_part # <<>> THEN Append(acc.parts, acc.current_part)
        ELSE acc.parts

(***************************************************************************)
(* Characters.  AsciiOrder lists the characters the model uses in code     *)
(* point order; str.lower() maps the upper-case letters and nothing else.  *)
(***************************************************************************)
UpperLetters == <<"A", "B", "C", "D", "E", "F", "G", "H", "I", "J", "K", "L", "M",
                  "N", "O", "P", "Q", "R", "S", "T", "U", "V", "W", "X", "Y", "Z">>
LowerLetters == <<"a", "b", "c", "d", "e", "f", "g", "h", "i", "j", "k", "l", "m",
                  "n", "o", "p", "q", "r", "s", "t", "u", "v", "w", "x", "y", "z">>
AsciiOrder == <<"!", "*", ".", "?">> \o UpperLetters \o <<"[", "]", "_">> \o LowerLetters

CharCode(c) == CHOOSE k \in 1..Len(AsciiOrder) : AsciiOrder[k] = c

LowerChar(c) ==
    IF \E k \in 1..Len(UpperLetters) : UpperLetters[k] = c
    THEN LowerLetters[CHOOSE k \in 1..Len(UpperLetters) : UpperLetters[k] = c]
    ELSE c

\* str.lower()
LowerText(text) == [k \in 1..Len(text) |-> LowerChar(text[k])]

\* str < str, by code points
RECURSIVE TextLess(_, _)
TextLess(a, b) ==
    IF b = <<>> THEN FALSE
    ELSE IF a = <<>> THEN TRUE
    ELSE IF Head(a) = Head(b) THEN TextLess(Tail(a), Tail(b))
    ELSE CharCode(Head(a)) < CharCode(Head(b))

\* pathlib's PurePath.suffix: the part of the name from its last dot on, when that
\* dot is neither the first nor the last character of the name.
Suffix(name) ==
    LET dots == {k \in 1..Len(name) : name[k] = "."}
    IN  IF dots = {} THEN <<>>
        ELSE LET last == CHOOSE k \in dots : \A j \in dots : j <= k
             IN  IF 1 < last /\ last < Len(name)
                 THEN SubSeq(name, last, Len(name))
                 ELSE <<>>

(***************************************************************************)
(* fnmatch.fnmatch(name, pat) on a POSIX system (os.path.normcase is the   *)
(* identity there): * matches any run, ? one character, [seq] one          *)
(* character of seq, [!seq] one character not in seq, and a [ that no ]    *)
(* closes is a literal.  Ranges (a-z) are not among the patterns drawn.    *)
(***************************************************************************)
\* The index of the ] that closes the class opened at pat[1] = "[", or 0.
ClassEnd(pat) ==
    LET first == IF Len(pat) >= 2 /\ pat[2] = "!" THEN 3 ELSE 2
        from == IF Len(pat) >= first /\ pat[first] = "]" THEN first + 1 ELSE first
        closers == {k \in from..Len(pat) : pat[k] = "]"}
    IN  IF closers = {} THEN 0 ELSE CHOOSE k \in closers : \A j \in closers : k <= j

ClassMatches(c, pat, end) ==
    IF pat[2] = "!"
    THEN c \notin {pat[k] : k \in 3..(end - 1)}
    ELSE c \in {pat[k] : k \in 2..(end - 1)}

RECURSIVE fnmatch(_, _)
fnmatch(name, pat) ==
    IF pat = <<>> THEN name = <<>>
    ELSE IF Head(pat) = "*"
    THEN fnmatch(name, Tail(pat)) \/ (name # <<>> /\ fnmatch(Tail(name), pat))
    ELSE IF name = <<>> THEN FALSE
    ELSE IF Head(pat) = "?" THEN fnmatch(Tail(name), Tail(pat))
    ELSE IF Head(pat) = "[" /\ ClassEnd(pat) # 0
    THEN /\ ClassMatches(Head(name), pat, ClassEnd(pat))
         /\ fnmatch(Tail(name), SubSeq(pat, ClassEnd(pat) + 1, Len(pat)))
    ELSE Head(name) = Head(pat) /\ fnmatch(Tail(name), Tail(pat))

(***************************************************************************)
(* A file, as the scanner and the extractor see it: its bare name, its     *)
(* size in bytes, whether stat() succeeds on it and whether it can be read.*)
(* CodeScanner._should_include_file.                                       *)
(***************************************************************************)
BytesPerMb == 1048576

\* size_bytes / (1024 * 1024) > max_size_mb: the division by 2^20 is exact in
\* binary floating point, so the comparison is the one on the integers.
ExceedsMb(size_bytes, max_size_mb) == size_bytes > max_size_mb * BytesPerMb

\* Mutant: the comparison with the ceiling is not strict.
should_include_file_SizeNotStrict(f) ==
    IF LowerText(Suffix(f.name)) \notin extensions THEN FALSE
    ELSE IF \E pattern \in exclude_patterns : fnmatch(f.name, pattern) THEN FALSE
    ELSE IF ~f.stat_ok THEN FALSE
    ELSE IF f.size >= max_file_size_mb * BytesPerMb THEN FALSE
    ELSE TRUE

\* Mutant: the exclude patterns are not consulted.
should_include_file_NoPatterns(f) ==
    IF LowerText(Suffix(f.name)) \notin extensions THEN FALSE
    ELSE IF ~f.stat_ok THEN FALSE
    ELSE IF ExceedsMb(f.size, max_file_size_mb) THEN FALSE
    ELSE TRUE

should_include_file(f) ==
    IF LowerText(Suffix(f.name)) \notin extensions THEN FALSE
    ELSE IF \E pattern \in exclude_patterns : fnmatch(f.name, pattern) THEN FALSE
    ELSE IF ~f.stat_ok THEN FALSE
    ELSE IF ExceedsMb(f.size, max_file_size_mb) THEN FALSE
    ELSE TRUE

(***************************************************************************)
(* _process_single_file: the record of a file, or None.                    *)
(* rel is the path of the file relative to the scan root.                  *)
(***************************************************************************)
None == [none |-> TRUE]

process_single_file(f, rel, max_size_mb) ==
    IF ~f.stat_ok THEN None
    ELSE IF ExceedsMb(f.size, max_size_mb) THEN None
    ELSE IF ~f.readable THEN None
    ELSE [relative_path |-> rel,
          content |-> f.content,
          extension |-> LowerText(IF Suffix(f.name) = <<>> THEN <<>> ELSE Tail(Suffix(f.name))),
          size_bytes |-> f.size]

(***************************************************************************)
(* Idle values of the components a specification does not exercise.        *)
(***************************************************************************)
ConfigIdle ==
    /\ extensions = {}
    /\ exclude_dirs = {}
    /\ exclude_patterns = {}
    /\ max_file_size_mb = 0
    /\ scan_subfolders = TRUE
    /\ max_tokens_per_part = 0

ScanIdle ==
    fs = <<>> /\ walk_stack = <<>> /\ listed = {} /\ files = <<>> /\ tree = <<>>

IncludeIdle == candidate = <<>> /\ included = FALSE

ProcIdle == process_args = <<>> /\ futures = <<>> /\ workers = 0 /\ results = <<>>

SplitIdle == snippets = <<>> /\ parts = <<>>

CliIdle ==
    /\ argv = <<>>
    /\ parsed_args = <<>>
    /\ config_file = <<>>
    /\ config = <<>>
    /\ temp_dir = FALSE
    /\ repo_info = <<>>
    /\ pending = "none"
    /\ exit_code = -1
    /\ events = {}

OutIdle ==
    /\ base_name = <<>>
    /\ overwrite_existing = FALSE
    /\ documents = <<>>
    /\ disk = <<>>
    /\ disk_before = <<>>
    /\ created_files = <<>>
    /\ answers = <<>>
    /\ previous = <<>>

(***************************************************************************)
(* SpecSplit: _split_into_parts over every bounded sequence of snippets.   *)
(* The k-th snippet is made of the k-th letter only, so that every         *)
(* character of a part tells which snippet it came from.                   *)
(***************************************************************************)
SnippetAlphabet == <<"a", "b", "c", "d", "e", "f">>

SnippetText(k, len) ==
    [j \in 1..len |-> SnippetAlphabet[((k - 1) % Len(SnippetAlphabet)) + 1]]

SnippetLists(max) ==
    UNION {[1..n -> 1..MaxSnippetLen] : n \in 0..max}

InitSplit ==
    /\ pc = "split"
    /\ \E lens \in SnippetLists(MaxSnippets) :
           snippets = [k \in 1..Len(lens) |-> SnippetText(k, lens[k])]
    /\ extensions = {}
    /\ exclude_dirs = {}
    /\ exclude_patterns = {}
    /\ max_file_size_mb = 0
    /\ scan_subfolders = TRUE
    /\ max_tokens_per_part \in 1..MaxBudget
    /\ parts = <<>>
    /\ ScanIdle /\ IncludeIdle /\ ProcIdle /\ CliIdle /\ OutIdle

SplitIntoParts ==
    /\ pc = "split"
    /\ parts' = split_into_parts(snippets, max_tokens_per_part)
    /\ pc' = "split_done"
    /\ UNCHANGED <<configVars, cliVars, outVars, scanVars, includeVars, procVars, snippets>>

NextSplit == SplitIntoParts

SpecSplit == InitSplit /\ [][NextSplit]_vars

(***************************************************************************)
(* Names, extensions and glob patterns the specifications draw from.       *)
(***************************************************************************)
N_main_py == <<"m", "a", "i", "n", ".", "p", "y">>
N_test_py == <<"t", "e", "s", "t", ".", "p", "y">>
N_test_js == <<"t", "e", "s", "t", ".", "j", "s">>
N_readme_md == <<"R", "E", "A", "D", "M", "E", ".", "m", "d">>
N_upper_py == <<"B", ".", "P", "Y">>
N_dot_git == <<".", "g", "i", "t">>
N_src == <<"s", "r", "c">>
N_build == <<"b", "u", "i", "l", "d">>
Ext_py == <<".", "p", "y">>
Ext_js == <<".", "j", "s">>
Ext_md == <<".", "m", "d">>
Ext_PY == <<".", "P", "Y">>
Pat_test_any == <<"t", "e", "s", "t", ".", "*">>
Pat_any_md == <<"*", ".", "m", "d">>
Pat_class_py == <<"[", "m", "t", "]", "*", ".", "p", "y">>
Pat_q == <<"?", "?", "?", "?", ".", "j", "s">>
Pat_negclass == <<"[", "!", "t", "]", "*">>

(***************************************************************************)
(* SpecFile: the per-file steps.  One candidate file goes through the body *)
(* of the loop of _collect_files (the _should_include_file test, then the  *)
(* yield) and is then handed to _process_single_file.                      *)
(***************************************************************************)
MaxSizeMb == 2

FileContentText == <<"x">>

CandidateNames == {N_main_py, N_test_py, N_test_js, N_readme_md, N_upper_py, N_dot_git}

ExtensionChoices == {{Ext_py}, {Ext_py, Ext_js}, {Ext_PY, Ext_md}, {Ext_py, Ext_js, Ext_md}}

PatternChoices == {{}, {Pat_test_any}, {Pat_any_md, Pat_class_py}, {Pat_q, Pat_negclass}}

\* The sizes around the ceiling of max_mb megabytes, and the empty file.
SizesAround(max_mb) ==
    {0, max_mb * BytesPerMb - 1, max_mb * BytesPerMb, max_mb * BytesPerMb + 1}

\* stat() fails on a file that vanished or is a broken link; such a file cannot be
\* read either.  A file without read permission still has a size.
FileStates == {<<TRUE, TRUE>>, <<TRUE, FALSE>>, <<FALSE, FALSE>>}

InitFile ==
    /\ pc = "file"
    /\ extensions \in ExtensionChoices
    /\ exclude_patterns \in PatternChoices
    /\ max_file_size_mb \in 1..MaxSizeMb
    /\ exclude_dirs = {}
    /\ scan_subfolders = TRUE
    /\ max_tokens_per_part = 0
    /\ \E name \in CandidateNames, st \in FileStates :
       \E size \in SizesAround(max_file_size_mb) :
           candidate = [name |-> name, size |-> size, stat_ok |-> st[1],
                        readable |-> st[2], content |-> FileContentText]
    /\ included = FALSE
    /\ ScanIdle /\ ProcIdle /\ SplitIdle /\ CliIdle /\ OutIdle

\* _collect_files, line 72: if self._should_include_file(file_path)
ShouldIncludeFile ==
    /\ pc = "file"
    /\ included' = should_include_file(candidate)
    /\ pc' = "file_checked"
    /\ UNCHANGED <<configVars, cliVars, outVars, scanVars, candidate, procVars, splitVars>>

\* _collect_files, line 73: yield (file_path, root)
YieldFile ==
    /\ pc = "file_checked"
    /\ files' = IF included THEN Append(files, <<candidate.name>>) ELSE files
    /\ pc' = "file_yielded"
    /\ UNCHANGED <<configVars, cliVars, outVars, fs, walk_stack, listed, tree, includeVars, procVars,
                    splitVars>>

\* _process_single_file((file_path, root_path, max_size_mb))
ProcessSingleFile ==
    /\ pc = "file_yielded"
    /\ results' = <<process_single_file(candidate, <<candidate.name>>, max_file_size_mb)>>
    /\ pc' = "file_done"
    /\ UNCHANGED <<configVars, cliVars, outVars, scanVars, includeVars, process_args, futures, workers,
                   splitVars>>

NextFile == ShouldIncludeFile \/ YieldFile \/ ProcessSingleFile

SpecFile == InitFile /\ [][NextFile]_vars

(***************************************************************************)
(* The directory tree under the scan root.  fs[n] is the n-th entry; its   *)
(* parent is the root (0) or an earlier directory; a directory lists its   *)
(* entries in the order of their numbers (the raw enumeration order, which *)
(* is unrelated to the names).  An entry of kind "dir" is a directory or,  *)
(* with symlink set, a symbolic link to one, whose entries are those of    *)
(* the target; listable says whether listing it is permitted.              *)
(***************************************************************************)
Root == 0

\* entry.is_dir(), which follows symbolic links.
IsDir(n) == n = Root \/ fs[n].kind = "dir"

\* entry.is_symlink() / os.path.islink
IsSymlink(n) == n # Root /\ fs[n].symlink

Listable_Always(n) == TRUE

\* os.scandir / Path.iterdir of the directory does not raise PermissionError.
Listable(n) == n = Root \/ fs[n].listable

\* os.scandir / Path.iterdir: the entries of a directory, in enumeration order.
Children(d) ==
    LET Pick(k) == fs[k].parent = d
    IN  SelectSeq([k \in 1..Len(fs) |-> k], Pick)

\* Path.relative_to(root).parts
RECURSIVE RelParts(_)
RelParts(n) == IF n = Root THEN <<>> ELSE Append(RelParts(fs[n].parent), fs[n].name)

(***************************************************************************)
(* CodeScanner._should_exclude_directory and the body of the loop of       *)
(* CodeScanner._collect_files over os.walk(root).                          *)
(***************************************************************************)
should_exclude_directory(current) ==
    IF current = Root THEN FALSE
    ELSE \E k \in 1..Len(RelParts(current)) : RelParts(current)[k] \in exclude_dirs

\* Mutant: the scan_subfolders switch is not consulted.
collect_files_body_AlwaysRecurse(current, dirnames, filenames) ==
    LET Kept(d) == fs[d].name \notin exclude_dirs
        Included(f) == should_include_file(fs[f])
    IN  IF should_exclude_directory(current)
        THEN [dirnames |-> <<>>, yielded |-> <<>>]
        ELSE [dirnames |-> SelectSeq(dirnames, Kept),
              yielded |-> SelectSeq(filenames, Included)]

\* What one (current_dir, dirnames, filenames) triple of os.walk leaves in
\* dirnames and yields.
collect_files_body(current, dirnames, filenames) ==
    LET Kept(d) == fs[d].name \notin exclude_dirs
        Included(f) == should_include_file(fs[f])
    IN  IF should_exclude_directory(current)
        THEN [dirnames |-> <<>>, yielded |-> <<>>]
        ELSE IF ~scan_subfolders /\ current # Root
        THEN [dirnames |-> <<>>, yielded |-> <<>>]
        ELSE [dirnames |-> SelectSeq(dirnames, Kept),
              yielded |-> SelectSeq(filenames, Included)]

(***************************************************************************)
(* CodeScanner.generate_directory_tree.  A line of the tree is kept as its *)
(* three pieces: the prefix, the connector and the name of the entry; the  *)
(* box-drawing characters of the connectors are written in ASCII here.     *)
(* A line also remembers the entry it renders.                             *)
(***************************************************************************)
RootName == <<"r", "o", "o", "t">>

\* The placeholder of a directory that may not be listed.
PermissionDenied == <<"[Permission Denied]">>

\* os.readlink(str(entry)) of a link to a directory.
LinkTarget == <<"/", "o", "u", "t">>

\* sorted(entries, key=lambda e: e.name.lower()): a stable insertion sort.
RECURSIVE InsertByLowerName(_, _)
InsertByLowerName(sorted, e) ==
    IF sorted = <<>> THEN <<e>>
    ELSE IF TextLess(LowerText(fs[e].name), LowerText(fs[Head(sorted)].name))
    THEN <<e>> \o sorted
    ELSE <<Head(sorted)>> \o InsertByLowerName(Tail(sorted), e)

RECURSIVE SortedByLowerName(_)
SortedByLowerName(entries) ==
    IF entries = <<>> THEN <<>>
    ELSE InsertByLowerName(SortedByLowerName(SubSeq(entries, 1, Len(entries) - 1)),
                           entries[Len(entries)])

\* The filter of _walk_dir: whether an entry stays in filtered_entries.
tree_entry_kept(e) ==
    IF fs[e].kind = "dir" /\ fs[e].name \in exclude_dirs THEN FALSE
    ELSE IF fs[e].kind = "file"
    THEN ~\E pattern \in exclude_patterns : fnmatch(fs[e].name, pattern)
    ELSE TRUE

RECURSIVE walk_dir(_, _)
RECURSIVE walk_dir_entries(_, _)
walk_dir_entries(entries, prefix) ==
    IF entries = <<>> THEN <<>>
    ELSE LET entry == Head(entries)
             is_last == Len(entries) = 1
             connector == IF is_last THEN "L-- " ELSE "|-- "
             line == [prefix |-> prefix, connector |-> connector, name |-> fs[entry].name,
                      entry |-> entry,
                      note |-> IF IsSymlink(entry) THEN <<" -> ">> \o LinkTarget ELSE <<>>]
             sub_prefix == IF is_last THEN "    " ELSE "|   "
         IN  <<line>>
             \o (IF IsDir(entry) THEN walk_dir(entry, Append(prefix, sub_prefix)) ELSE <<>>)
             \o walk_dir_entries(Tail(entries), prefix)

\* except PermissionError: return [prefix + "L-- [Permission Denied]"]
walk_dir(path, prefix) ==
    IF ~Listable(path)
    THEN <<[prefix |-> prefix, connector |-> "L-- ", name |-> PermissionDenied,
            entry |-> path, note |-> <<>>]>>
    ELSE walk_dir_entries(SelectSeq(SortedByLowerName(Children(path)), tree_entry_kept),
                          prefix)

generate_directory_tree(root_name) ==
    <<[prefix |-> <<>>, connector |-> "", name |-> root_name, entry |-> Root,
       note |-> <<>>]>>
    \o walk_dir(Root, <<>>)

(***************************************************************************)
(* Spec: scan_directory, then generate_directory_tree, over every bounded  *)
(* directory tree and a choice of scan rules.                              *)
(***************************************************************************)
MaxNodes == 3

\* ScanConfig.max_file_size_mb as the dataclass sets it.
DefaultMaxFileSizeMb == 2

DirEntry(name) ==
    [kind |-> "dir", name |-> name, size |-> 0, stat_ok |-> TRUE, readable |-> FALSE,
     content |-> <<>>, symlink |-> FALSE, listable |-> TRUE]

FileEntry(name, size) ==
    [kind |-> "file", name |-> name, size |-> size, stat_ok |-> TRUE, readable |-> TRUE,
     content |-> FileContentText, symlink |-> FALSE, listable |-> FALSE]

EntryChoices ==
    {DirEntry(N_src), DirEntry(N_build),
     FileEntry(N_main_py, DefaultMaxFileSizeMb * BytesPerMb),
     FileEntry(N_main_py, DefaultMaxFileSizeMb * BytesPerMb + 1),
     FileEntry(N_test_py, 0),
     FileEntry(N_test_js, 0),
     FileEntry(N_build, 0)}

\* An entry may be added to tree t under the root or under one of its directories,
\* where no entry has its name yet.
Placements(t, choices) ==
    {[kind |-> c.kind, name |-> c.name, size |-> c.size, stat_ok |-> c.stat_ok,
      readable |-> c.readable, content |-> c.content, symlink |-> c.symlink,
      listable |-> c.listable, parent |-> d] :
         c \in choices,
         d \in {Root} \cup {k \in 1..Len(t) : t[k].kind = "dir"}}

Fits(t, e) == \A k \in 1..Len(t) : t[k].parent = e.parent => t[k].name # e.name

\* The trees of exactly size entries: every entry hangs under the root or an
\* earlier directory, and no two entries of one directory share a name.
RECURSIVE TreesOfSize(_, _)
TreesOfSize(size, choices) ==
    IF size = 0 THEN {<<>>}
    ELSE UNION {{Append(t, e) : e \in {x \in Placements(t, choices) : Fits(t, x)}} :
                t \in TreesOfSize(size - 1, choices)}

Trees(max, choices) == UNION {TreesOfSize(size, choices) : size \in 0..max}

ExcludeDirChoices == {{N_build}, {N_build, N_main_py}}

ScanPatternChoices == {{}, {Pat_test_any}}

Init ==
    /\ pc = "scan"
    /\ fs \in Trees(MaxNodes, EntryChoices)
    /\ extensions = {Ext_py, Ext_js}
    /\ exclude_dirs \in ExcludeDirChoices
    /\ exclude_patterns \in ScanPatternChoices
    /\ max_file_size_mb = DefaultMaxFileSizeMb
    /\ scan_subfolders \in BOOLEAN
    /\ max_tokens_per_part = 0
    /\ walk_stack = <<>>
    /\ listed = {}
    /\ files = <<>>
    /\ tree = <<>>
    /\ IncludeIdle /\ ProcIdle /\ SplitIdle /\ CliIdle /\ OutIdle

\* scan_directory: the root exists and is a directory; os.walk starts at it.
ScanDirectory ==
    /\ pc = "scan"
    /\ walk_stack' = <<Root>>
    /\ pc' = "walk"
    /\ UNCHANGED <<configVars, cliVars, outVars, fs, listed, files, tree, includeVars, procVars, splitVars>>

\* os.walk lists the next directory, _collect_files prunes dirnames and yields the
\* files it includes, and os.walk goes on with what is left of dirnames, except
\* the symbolic links (followlinks is off).  A directory os.walk may not list is
\* passed over: the error of scandir goes to onerror, which is not set.
WalkDir ==
    /\ pc = "walk"
    /\ walk_stack # <<>>
    /\ LET current == Head(walk_stack)
           dirnames == SelectSeq(Children(current), IsDir)
           IsNonDir(n) == ~IsDir(n)
           filenames == SelectSeq(Children(current), IsNonDir)
           step == collect_files_body(current, dirnames, filenames)
           NotLink(d) == ~IsSymlink(d)
       IN  IF Listable(current)
           THEN /\ listed' = listed \cup {current}
                /\ files' = files
                             \o [k \in 1..Len(step.yielded) |-> RelParts(step.yielded[k])]
                /\ walk_stack' = SelectSeq(step.dirnames, NotLink) \o Tail(walk_stack)
           ELSE /\ walk_stack' = Tail(walk_stack)
                /\ UNCHANGED <<listed, files>>
    /\ UNCHANGED <<pc, configVars, cliVars, outVars, fs, tree, includeVars, procVars, splitVars>>

\* os.walk is exhausted: scan_directory returns the list.
ScanReturn ==
    /\ pc = "walk"
    /\ walk_stack = <<>>
    /\ pc' = "scanned"
    /\ UNCHANGED <<configVars, cliVars, outVars, scanVars, includeVars, procVars, splitVars>>

GenerateDirectoryTree ==
    /\ pc = "scanned"
    /\ tree' = generate_directory_tree(RootName)
    /\ pc' = "done"
    /\ UNCHANGED <<configVars, cliVars, outVars, fs, walk_stack, listed, files, includeVars, procVars,
                   splitVars>>

Next == ScanDirectory \/ WalkDir \/ ScanReturn \/ GenerateDirectoryTree

Spec == Init /\ [][Next]_vars

(***************************************************************************)
(* SpecWalk: the same two operations over trees that also hold symbolic    *)
(* links to directories and directories that may not be listed.            *)
(***************************************************************************)
\* A symbolic link to a directory.
LinkEntry(name) == [DirEntry(name) EXCEPT !.symlink = TRUE]

\* A directory whose listing raises PermissionError.
DeniedEntry(name) == [DirEntry(name) EXCEPT !.listable = FALSE]

WalkEntryChoices ==
    {DirEntry(N_src), LinkEntry(N_src), LinkEntry(N_build), DeniedEntry(N_src),
     DeniedEntry(N_dot_git),
     FileEntry(N_main_py, 0), FileEntry(N_test_js, 0)}

InitWalk ==
    /\ pc = "scan"
    /\ fs \in Trees(MaxNodes, WalkEntryChoices)
    /\ extensions = {Ext_py, Ext_js}
    /\ exclude_dirs = {N_build}
    /\ exclude_patterns = {}
    /\ max_file_size_mb = DefaultMaxFileSizeMb
    /\ scan_subfolders \in BOOLEAN
    /\ max_tokens_per_part = 0
    /\ walk_stack = <<>>
    /\ listed = {}
    /\ files = <<>>
    /\ tree = <<>>
    /\ IncludeIdle /\ ProcIdle /\ SplitIdle /\ CliIdle /\ OutIdle

SpecWalk == InitWalk /\ [][Next]_vars

(***************************************************************************)
(* FileProcessor.process_files.  Every argument is submitted to the pool;  *)
(* a worker runs _process_single_file on it; as_completed hands the        *)
(* finished futures to the loop in any order they finished in.             *)
(* A future is "pending", "running", "finished" or "collected"; a finished *)
(* future holds the value the worker returned or an exception.             *)
(***************************************************************************)
\* Mutant: the `if result` test is left out.
collect_result_NoNoneCheck(collected, future) ==
    IF future.raised THEN collected
    ELSE Append(collected, future.value)

\* The body of the loop over as_completed: future.result() raises and the error is
\* logged, or returns None and nothing is kept, or returns a record that is appended.
collect_result(collected, future) ==
    IF future.raised THEN collected
    ELSE IF future.value = None THEN collected
    ELSE Append(collected, future.value)

(***************************************************************************)
(* SpecProc: process_files over every bounded list of file references, for *)
(* every bounded number of workers and every order of completion.          *)
(***************************************************************************)
MaxFiles == 3
MaxWorkers == 2

ProcNames == <<N_main_py, N_test_py, N_test_js, N_readme_md, N_upper_py>>

\* The i-th file reference of the list: all references are distinct paths.
ProcPath(i) ==
    IF i <= Len(ProcNames) THEN <<ProcNames[i]>>
    ELSE <<N_src, ProcNames[((i - 1) % Len(ProcNames)) + 1]>>

\* What can be the matter with a file handed to process_files: nothing, too large,
\* unreadable, gone since the scan, or a future that ends with an exception.
ProcFileKinds == {"ok", "large", "unreadable", "gone", "raises"}

ProcFile(i, kind) ==
    [rel |-> ProcPath(i),
     name |-> ProcPath(i)[Len(ProcPath(i))],
     size |-> IF kind = "large" THEN DefaultMaxFileSizeMb * BytesPerMb + 1 ELSE DefaultMaxFileSizeMb * BytesPerMb,
     stat_ok |-> kind # "gone",
     readable |-> kind \notin {"unreadable", "gone"},
     content |-> FileContentText,
     result_ok |-> kind # "raises"]

ProcLists(max) ==
    UNION {{[i \in 1..n |-> ProcFile(i, kinds[i])] : kinds \in [1..n -> ProcFileKinds]} :
           n \in 0..max}

InitProc ==
    /\ pc = "process"
    /\ files \in ProcLists(MaxFiles)
    /\ max_file_size_mb = DefaultMaxFileSizeMb
    /\ extensions = {}
    /\ exclude_dirs = {}
    /\ exclude_patterns = {}
    /\ scan_subfolders = TRUE
    /\ max_tokens_per_part = 0
    /\ fs = <<>> /\ walk_stack = <<>> /\ listed = {} /\ tree = <<>>
    /\ process_args = <<>>
    /\ futures = <<>>
    /\ results = <<>>
    /\ workers \in 1..MaxWorkers
    /\ IncludeIdle /\ SplitIdle /\ CliIdle /\ OutIdle

ProcessFilesEmpty_NoEarlyReturn ==
    /\ pc = "process"
    /\ files = <<>>
    /\ results' = <<>>
    /\ pc' = "collect"
    /\ UNCHANGED <<configVars, cliVars, outVars, scanVars, includeVars, process_args, futures, workers,
                   splitVars>>

\* if not files: return []
ProcessFilesEmpty ==
    /\ pc = "process"
    /\ files = <<>>
    /\ results' = <<>>
    /\ pc' = "returned"
    /\ UNCHANGED <<configVars, cliVars, outVars, scanVars, includeVars, process_args, futures, workers,
                   splitVars>>

\* The arguments are prepared and every one of them is submitted.
SubmitAll ==
    /\ pc = "process"
    /\ files # <<>>
    /\ process_args' = [i \in 1..Len(files) |->
                            [file |-> files[i], max_size_mb |-> max_file_size_mb]]
    /\ futures' = [i \in 1..Len(files) |->
                       [state |-> "pending", raised |-> FALSE, value |-> None]]
    /\ results' = <<>>
    /\ pc' = "collect"
    /\ UNCHANGED <<configVars, cliVars, outVars, scanVars, includeVars, workers, splitVars>>

Running == {i \in 1..Len(futures) : futures[i].state = "running"}

\* The positions of process_files at which the worker processes of the pool
\* exist: inside the with block, and in the executor's __exit__, whose
\* shutdown(wait=True) lets them work off what was submitted.
PoolAlive == {"collect", "pool_exit"}

\* A free worker of the pool takes the pending call that was submitted first.
WorkerStart(i) ==
    /\ pc \in PoolAlive
    /\ futures[i].state = "pending"
    /\ \A j \in 1..(i - 1) : futures[j].state # "pending"
    /\ Cardinality(Running) < workers
    /\ futures' = [futures EXCEPT ![i].state = "running"]
    /\ UNCHANGED <<pc, configVars, cliVars, outVars, scanVars, includeVars, process_args, results, workers,
                   splitVars>>

\* The worker has run _process_single_file; the future holds its result.
WorkerFinish(i) ==
    /\ pc \in PoolAlive
    /\ futures[i].state = "running"
    /\ LET arg == process_args[i]
       IN  futures' = [futures EXCEPT ![i] =
               [state |-> "finished",
                raised |-> ~arg.file.result_ok,
                value |-> IF arg.file.result_ok
                          THEN process_single_file(arg.file, arg.file.rel, arg.max_size_mb)
                          ELSE None]]
    /\ UNCHANGED <<pc, configVars, cliVars, outVars, scanVars, includeVars, process_args, results, workers,
                   splitVars>>

\* as_completed yields a finished future and the loop body handles it.
Collect(i) ==
    /\ pc = "collect"
    /\ futures[i].state = "finished"
    /\ results' = collect_result(results, futures[i])
    /\ futures' = [futures EXCEPT ![i].state = "collected"]
    /\ UNCHANGED <<pc, configVars, cliVars, outVars, scanVars, includeVars, process_args, workers, splitVars>>

ProcessReturn_BeforeAllCompleted ==
    /\ pc = "collect"
    /\ pc' = "returned"
    /\ UNCHANGED <<configVars, cliVars, outVars, scanVars, includeVars, procVars, splitVars>>

\* as_completed is exhausted; the pool is shut down and the list returned.
ProcessReturn ==
    /\ pc = "collect"
    /\ \A i \in 1..Len(futures) : futures[i].state = "collected"
    /\ pc' = "returned"
    /\ UNCHANGED <<configVars, cliVars, outVars, scanVars, includeVars, procVars, splitVars>>

NextProc ==
    \/ ProcessFilesEmpty
    \/ SubmitAll
    \/ \E i \in 1..Len(futures) : WorkerStart(i) \/ WorkerFinish(i) \/ Collect(i)
    \/ ProcessReturn

SpecProc == InitProc /\ [][NextProc]_vars

(***************************************************************************)
(* MarkdownFormatter._format_file_snippet.  A snippet is text, character   *)
(* by character; the backquote of a code fence is written as an apostrophe.*)
(***************************************************************************)
Backquote == "'"

Fence == <<Backquote, Backquote, Backquote>>

separator == <<"-", "-", "-", "\n">>

\* str(relative_path): the parts of the path joined by "/".
RECURSIVE PathText(_)
PathText(rel) ==
    IF rel = <<>> THEN <<>>
    ELSE IF Len(rel) = 1 THEN Head(rel)
    ELSE Head(rel) \o <<"/">> \o PathText(Tail(rel))

file_header(file_content) ==
    <<"#", "#", "#", " ", "F", "i", "l", "e", ":", " ">>
    \o PathText(file_content.relative_path) \o <<"\n">>

\* Mutant: the closing separator is left out.
format_file_snippet_NoClosingSeparator(file_content) ==
    IF file_content.extension = <<"m", "d">>
    THEN separator \o file_header(file_content) \o <<"\n">> \o file_content.content
         \o <<"\n">>
    ELSE separator \o file_header(file_content)
         \o Fence \o file_content.extension \o <<"\n">>
         \o file_content.content \o <<"\n">>
         \o Fence \o <<"\n">>

format_file_snippet(file_content) ==
    IF file_content.extension = <<"m", "d">>
    THEN separator \o file_header(file_content) \o <<"\n">> \o file_content.content
         \o <<"\n">> \o separator
    ELSE separator \o file_header(file_content)
         \o Fence \o file_content.extension \o <<"\n">>
         \o file_content.content \o <<"\n">>
         \o Fence \o <<"\n">> \o separator

(***************************************************************************)
(* MarkdownFormatter._generate_header.  The header is text whose fixed     *)
(* pieces are kept whole: the instructions, the labels and the line ends.  *)
(* A text that is None or empty is the empty sequence: the code tests both *)
(* by truth value.                                                         *)
(***************************************************************************)
DecimalDigits == <<"0", "1", "2", "3", "4", "5", "6", "7", "8", "9">>

\* str(n) of a natural number
RECURSIVE Str(_)
Str(n) ==
    IF n < 10 THEN <<DecimalDigits[n + 1]>>
    ELSE Str(n \div 10) \o <<DecimalDigits[(n % 10) + 1]>>

generate_instructions == <<"# Instructions for AI ... ---\n\n">>

include_structure == TRUE

TitleOpen == "# Code Summary (Part "
GeneratedOn == "**Generated on:** "
StructureHeading == "\n## Project Structure\n\n"

\* "\n".join(header + body) of generate_directory_tree
RECURSIVE TreeText(_)
TreeText(lines) ==
    IF lines = <<>> THEN <<>>
    ELSE LET l == Head(lines)
             text == l.prefix \o (IF l.connector = "" THEN <<>> ELSE <<l.connector>>)
                     \o l.name \o l.note
         IN  IF Len(lines) = 1 THEN text ELSE text \o <<"\n">> \o TreeText(Tail(lines))

\* Mutant: the title states the total where the index of the part belongs.
generate_header_WrongIndex(part_number, total_parts, project_structure, root_name, repo_url, repo_name, timestamp) ==
    LET project_display == IF repo_name # <<>> THEN repo_name ELSE root_name
        repository == IF repo_url # <<>>
                      THEN <<"**Repository:** ">> \o repo_url \o <<"\n">> ELSE <<>>
    IN  IF part_number = 1
        THEN generate_instructions
             \o <<TitleOpen>> \o Str(total_parts) \o <<" of ">> \o Str(total_parts)
             \o <<")", "\n", "\n">>
             \o <<GeneratedOn, timestamp, "\n">>
             \o <<"**Project:** ">> \o project_display \o <<"\n">>
             \o repository
             \o (IF project_structure # <<>> /\ include_structure
                 THEN <<StructureHeading>> \o Fence \o <<"\n">> \o project_structure
                      \o <<"\n">> \o Fence \o <<"\n", "\n">>
                 ELSE <<>>)
             \o <<"## Files\n\n">>
        ELSE <<TitleOpen>> \o Str(total_parts) \o <<" of ">> \o Str(total_parts)
             \o <<")", " - Continued", "\n", "\n">>
             \o <<GeneratedOn, timestamp, "\n">>
             \o <<"**Project:** ">> \o project_display \o <<"\n">>
             \o repository
             \o <<"\n## Files (Continued)\n\n">>

generate_header(part_number, total_parts, project_structure, root_name, repo_url, repo_name, timestamp) ==
    LET project_display == IF repo_name # <<>> THEN repo_name ELSE root_name
        repository == IF repo_url # <<>>
                      THEN <<"**Repository:** ">> \o repo_url \o <<"\n">> ELSE <<>>
    IN  IF part_number = 1
        THEN generate_instructions
             \o <<TitleOpen>> \o Str(part_number) \o <<" of ">> \o Str(total_parts)
             \o <<")", "\n", "\n">>
             \o <<GeneratedOn, timestamp, "\n">>
             \o <<"**Project:** ">> \o project_display \o <<"\n">>
             \o repository
             \o (IF project_structure # <<>> /\ include_structure
                 THEN <<StructureHeading>> \o Fence \o <<"\n">> \o project_structure
                      \o <<"\n">> \o Fence \o <<"\n", "\n">>
                 ELSE <<>>)
             \o <<"## Files\n\n">>
        ELSE <<TitleOpen>> \o Str(part_number) \o <<" of ">> \o Str(total_parts)
             \o <<")", " - Continued", "\n", "\n">>
             \o <<GeneratedOn, timestamp, "\n">>
             \o <<"**Project:** ">> \o project_display \o <<"\n">>
             \o repository
             \o <<"\n## Files (Continued)\n\n">>

(***************************************************************************)
(* MarkdownFormatter.format_content.  stamps[idx] is what datetime.now()   *)
(* gives when the header of part idx is generated.                         *)
(***************************************************************************)
format_content(file_records, project_structure, root_name, repo_url, repo_name, stamps) ==
    IF file_records = <<>> THEN <<>>
    ELSE LET snips == [i \in 1..Len(file_records) |-> format_file_snippet(file_records[i])]
             split == split_into_parts(snips, max_tokens_per_part)
         IN  [idx \in 1..Len(split) |->
                 generate_header(idx, Len(split),
                                 IF idx = 1 THEN project_structure ELSE <<>>,
                                 root_name, repo_url, repo_name, stamps[idx])
                 \o split[idx]]

\* repo_info.get(key), with None as the empty text
RepoGet(key) == IF key \in DOMAIN repo_info THEN repo_info[key] ELSE <<>>

(***************************************************************************)
(* SpecRuns: the extraction and the formatting of one list of files, run   *)
(* twice over the same files with the same configuration.  The documents   *)
(* of the first run are kept to be compared with those of the second.      *)
(***************************************************************************)
Timestamps == <<"2025-01-01 12:00:00", "2025-01-01 12:00:01", "2025-01-01 12:00:02">>

\* The clock readings of the headers of one call: the clock does not go back, and a
\* later run does not read an earlier second than the first reading of the run
\* before it.
StampSeqs(n, first) ==
    {st \in [1..n -> {Timestamps[first], Timestamps[first + 1]}] :
        \A i \in 1..(n - 1) : st[i] = Timestamps[first + 1] => st[i + 1] = Timestamps[first + 1]}

PartCount(file_records) ==
    Len(split_into_parts([i \in 1..Len(file_records) |->
                              format_file_snippet(file_records[i])],
                         max_tokens_per_part))

\* Budgets that put every snippet in a part of its own, and budgets that hold two
\* snippets of a one-line file.
OutBudgets == {MaxBudget, 10 * MaxBudget}

RootLine ==
    [prefix |-> <<>>, connector |-> "", name |-> RootName, entry |-> Root, note |-> <<>>]

RunFileKinds == {"ok", "gone"}

RunLists(max) ==
    UNION {{[i \in 1..n |-> ProcFile(i, kinds[i])] : kinds \in [1..n -> RunFileKinds]} :
           n \in 0..max}

InitRuns ==
    /\ pc = "process"
    /\ files \in RunLists(MaxFiles)
    /\ max_file_size_mb = DefaultMaxFileSizeMb
    /\ extensions = {}
    /\ exclude_dirs = {}
    /\ exclude_patterns = {}
    /\ scan_subfolders = TRUE
    /\ max_tokens_per_part \in OutBudgets
    /\ fs = <<>> /\ walk_stack = <<>> /\ listed = {}
    /\ tree = <<RootLine>>
    /\ process_args = <<>>
    /\ futures = <<>>
    /\ results = <<>>
    /\ workers \in 1..MaxWorkers
    /\ IncludeIdle /\ SplitIdle /\ CliIdle /\ OutIdle

\* formatter.format_content(files=file_contents, project_structure=structure, ...)
FormatContent ==
    /\ pc = "returned"
    /\ \E stamps \in StampSeqs(PartCount(results), Len(previous) + 1) :
           documents' = format_content(results, TreeText(tree), RootName,
                                       RepoGet("url"), RepoGet("name"), stamps)
    /\ pc' = "formatted"
    /\ UNCHANGED <<configVars, cliVars, scanVars, includeVars, procVars, splitVars,
                   base_name, overwrite_existing, disk, disk_before, created_files,
                   answers, previous>>

\* The pipeline is started again on the same files.
RunAgain ==
    /\ pc = "formatted"
    /\ previous = <<>>
    /\ previous' = <<documents>>
    /\ documents' = <<>>
    /\ process_args' = <<>>
    /\ futures' = <<>>
    /\ results' = <<>>
    /\ pc' = "process"
    /\ UNCHANGED <<configVars, cliVars, scanVars, includeVars, workers, splitVars,
                   base_name, overwrite_existing, disk, disk_before, created_files,
                   answers>>

NextRuns == NextProc \/ FormatContent \/ RunAgain

SpecRuns == InitRuns /\ [][NextRuns]_vars

(***************************************************************************)
(* MarkdownFormatter.save_parts.  The output directory is a function from  *)
(* the names of the files in it to their contents.                         *)
(***************************************************************************)
Blanks == {" ", "\t", "\n"}

\* str.strip()
RECURSIVE Strip(_)
Strip(text) ==
    IF text = <<>> THEN <<>>
    ELSE IF Head(text) \in Blanks THEN Strip(Tail(text))
    ELSE IF text[Len(text)] \in Blanks THEN Strip(SubSeq(text, 1, Len(text) - 1))
    ELSE text

\* f"{self.config.base_name}_part_{idx}.md"
part_filename(base, idx) == base \o <<"_part_">> \o Str(idx) \o <<".md">>

\* Mutant: the answer to the prompt is not looked at.
write_allowed_AnyAnswer(exists, overwrite, response) == TRUE

\* Whether the loop body goes on to write the file: it does unless the file
\* exists, overwriting was not asked for and the answer is not "y".
write_allowed(exists, overwrite, response) ==
    IF exists /\ ~overwrite
    THEN LowerText(Strip(response)) = <<"y">>
    ELSE TRUE

\* pathlib's write_text: the file holds the new content, whether it was there or not.
WriteText(dir, name, content) ==
    [n \in (DOMAIN dir) \cup {name} |-> IF n = name THEN content ELSE dir[n]]

(***************************************************************************)
(* SpecOut: format_content over every bounded list of records, then        *)
(* save_parts into every output directory that holds some of the part      *)
(* files already.                                                          *)
(***************************************************************************)
N_upper_md == <<"A", ".", "M", "D">>

OutNames == <<N_main_py, N_readme_md, N_upper_md, N_test_js>>

OutPath(i) ==
    IF i <= Len(OutNames) THEN <<OutNames[i]>>
    ELSE <<N_src, OutNames[((i - 1) % Len(OutNames)) + 1]>>

\* A file of one character, and a file whose only line is a separator line.
OutContents == {<<"x">>, separator}

OutFile(i, content) ==
    [rel |-> OutPath(i),
     name |-> OutPath(i)[Len(OutPath(i))],
     size |-> Len(content),
     stat_ok |-> TRUE,
     readable |-> TRUE,
     content |-> content,
     result_ok |-> TRUE]

OutRecord(i, content) ==
    process_single_file(OutFile(i, content), OutPath(i), DefaultMaxFileSizeMb)

OutRecordLists(max) ==
    UNION {{[i \in 1..n |-> OutRecord(i, contents[i])] : contents \in [1..n -> OutContents]} :
           n \in 0..max}

BaseNames == {<<"c", "o", "d", "e", "s", "n", "a", "p">>, <<"o", "u", "t">>}

OldContent == <<"written by an earlier run">>

\* The part files that are in the output directory before the run.
ExistingChoices(max) == {{}, {2}, 1..max}

CloneInfo ==
    [url |-> <<"h", "t", "t", "p", "s", ":", "/", "/", "h", "/", "r", ".", "g", "i", "t">>,
     name |-> <<"r">>,
     temp_dir |-> <<"c", "o", "d", "e", "s", "n", "a", "p", "_", "t", "e", "m", "p">>]

\* What the user types at the prompt.
Responses == {<<"y">>, <<" ", "Y", " ">>, <<>>, <<"y", "e", "s">>}

InitOut ==
    /\ pc = "returned"
    /\ results \in OutRecordLists(MaxFiles)
    /\ max_tokens_per_part \in OutBudgets
    /\ max_file_size_mb = DefaultMaxFileSizeMb
    /\ extensions = {}
    /\ exclude_dirs = {}
    /\ exclude_patterns = {}
    /\ scan_subfolders = TRUE
    /\ fs = <<>> /\ walk_stack = <<>> /\ listed = {} /\ files = <<>>
    /\ tree = <<RootLine>>
    /\ process_args = <<>> /\ futures = <<>> /\ workers = 0
    /\ IncludeIdle /\ SplitIdle
    /\ argv = <<>>
    /\ parsed_args = <<>>
    /\ config_file = <<>>
    /\ config = <<>>
    /\ temp_dir = FALSE
    /\ repo_info \in {<<>>, CloneInfo}
    /\ pending = "none"
    /\ exit_code = -1
    /\ events = {}
    /\ base_name \in BaseNames
    /\ overwrite_existing \in BOOLEAN
    /\ documents = <<>>
    /\ \E existing \in ExistingChoices(MaxFiles) :
           disk = [n \in {part_filename(base_name, k) : k \in existing} |-> OldContent]
    /\ disk_before = <<>>
    /\ created_files = <<>>
    /\ answers = <<>>
    /\ previous = <<>>

\* if not parts: raise FileProcessingError("No parts to save")
SavePartsEmpty ==
    /\ pc = "formatted"
    /\ documents = <<>>
    /\ disk_before' = disk
    /\ pending' = "FileProcessingError"
    /\ pc' = "save_raised"
    /\ UNCHANGED <<configVars, scanVars, includeVars, procVars, splitVars,
                   argv, parsed_args, config_file, config, temp_dir, repo_info, exit_code,
                   events, base_name, overwrite_existing, documents, disk,
                   created_files, answers, previous>>

\* output_dir.mkdir(parents=True, exist_ok=True); created_files = []
SavePartsBegin ==
    /\ pc = "formatted"
    /\ documents # <<>>
    /\ disk_before' = disk
    /\ created_files' = <<>>
    /\ answers' = <<>>
    /\ pc' = "save_loop"
    /\ UNCHANGED <<configVars, scanVars, includeVars, procVars, splitVars, cliVars,
                   base_name, overwrite_existing, documents, disk, previous>>

\* One pass of the loop body whose prompt, if any, is answered and whose write,
\* if any, either succeeds or fails with an OSError.
SavePart ==
    /\ pc = "save_loop"
    /\ Len(answers) < Len(documents)
    /\ LET idx == Len(answers) + 1
           filename == part_filename(base_name, idx)
           exists == filename \in DOMAIN disk
           asked == exists /\ ~overwrite_existing
       IN  \E response \in (IF asked THEN Responses ELSE {<<>>}), write_ok \in BOOLEAN :
               IF ~write_allowed(exists, overwrite_existing, response)
               THEN /\ write_ok
                    /\ answers' = Append(answers, [asked |-> asked, response |-> response,
                                                   outcome |-> "skipped"])
                    /\ UNCHANGED <<pc, disk, created_files, pending>>
               ELSE IF write_ok
               THEN /\ disk' = WriteText(disk, filename, documents[idx])
                    /\ created_files' = Append(created_files, filename)
                    /\ answers' = Append(answers, [asked |-> asked, response |-> response,
                                                   outcome |-> "written"])
                    /\ UNCHANGED <<pc, pending>>
               ELSE /\ answers' = Append(answers, [asked |-> asked, response |-> response,
                                                   outcome |-> "write_failed"])
                    /\ pending' = "FileProcessingError"
                    /\ pc' = "save_raised"
                    /\ UNCHANGED <<disk, created_files>>
    /\ UNCHANGED <<configVars, scanVars, includeVars, procVars, splitVars,
                   argv, parsed_args, config_file, config, temp_dir, repo_info, exit_code,
                   events, base_name, overwrite_existing, documents, disk_before,
                   previous>>

\* input() does not return: the user interrupts the prompt or the input is closed.
SavePromptRaises ==
    /\ pc = "save_loop"
    /\ Len(answers) < Len(documents)
    /\ part_filename(base_name, Len(answers) + 1) \in DOMAIN disk
    /\ ~overwrite_existing
    /\ \E exception \in {"KeyboardInterrupt", "EOFError"} : pending' = exception
    /\ answers' = Append(answers, [asked |-> TRUE, response |-> <<>>,
                                   outcome |-> "input_raised"])
    /\ pc' = "save_raised"
    /\ UNCHANGED <<configVars, scanVars, includeVars, procVars, splitVars,
                   argv, parsed_args, config_file, config, temp_dir, repo_info, exit_code,
                   events, base_name, overwrite_existing, documents, disk, disk_before,
                   created_files, previous>>

\* The user interrupts save_parts between two passes of the loop, or after the
\* last one.
SaveInterrupted ==
    /\ pc = "save_loop"
    /\ pending' = "KeyboardInterrupt"
    /\ pc' = "save_raised"
    /\ UNCHANGED <<configVars, scanVars, includeVars, procVars, splitVars,
                   argv, parsed_args, config_file, config, temp_dir, repo_info, exit_code,
                   events, outVars>>

\* What write_text leaves of a file when it is interrupted: the file was opened
\* for writing, which empties it, and none or a part of the content got there.
InterruptedWrites(content) == {SubSeq(content, 1, k) : k \in {0, Len(content) \div 2}}

\* The user interrupts save_parts while file_path.write_text(...) is at work.
WriteInterrupted ==
    /\ pc = "save_loop"
    /\ Len(answers) < Len(documents)
    /\ LET idx == Len(answers) + 1
           filename == part_filename(base_name, idx)
           exists == filename \in DOMAIN disk
           asked == exists /\ ~overwrite_existing
       IN  \E response \in (IF asked THEN Responses ELSE {<<>>}) :
           \E partial \in InterruptedWrites(documents[idx]) :
               /\ write_allowed(exists, overwrite_existing, response)
               /\ disk' = WriteText(disk, filename, partial)
               /\ answers' = Append(answers, [asked |-> asked, response |-> response,
                                              outcome |-> "write_interrupted"])
    /\ pending' = "KeyboardInterrupt"
    /\ pc' = "save_raised"
    /\ UNCHANGED <<configVars, scanVars, includeVars, procVars, splitVars,
                   argv, parsed_args, config_file, config, temp_dir, repo_info, exit_code,
                   events, base_name, overwrite_existing, documents, disk_before,
                   created_files, previous>>

\* return created_files
SaveReturn ==
    /\ pc = "save_loop"
    /\ Len(answers) = Len(documents)
    /\ pc' = "saved"
    /\ UNCHANGED <<configVars, scanVars, includeVars, procVars, splitVars, cliVars,
                   outVars>>

NextOut ==
    \/ FormatContent
    \/ SavePartsEmpty
    \/ SavePartsBegin
    \/ SavePart
    \/ SavePromptRaises
    \/ SaveInterrupted
    \/ WriteInterrupted
    \/ SaveReturn

SpecOut == InitOut /\ [][NextOut]_vars

(***************************************************************************)
(* Configuration: CodeSnapConfig, its loading from a JSON file and the     *)
(* command-line overrides.  A configuration is a record of the settings    *)
(* the keys of the JSON object reach; lists are sequences.  The default    *)
(* lists are cut down to a few of their entries.                           *)
(***************************************************************************)
DefaultMaxTokens == 12000

DefaultBaseName == <<"c", "o", "d", "e", "s", "n", "a", "p">>

\* CodeSnapConfig().  log_file is None, or a path whose parent directory exists
\* ("parent_exists") or does not ("parent_missing").
DefaultConfig ==
    [extensions |-> <<Ext_py, Ext_js>>,
     exclude_dirs |-> <<N_dot_git, N_build>>,
     exclude_patterns |-> <<Pat_any_md>>,
     max_file_size_mb |-> DefaultMaxFileSizeMb,
     scan_subfolders |-> TRUE,
     base_name |-> DefaultBaseName,
     max_tokens_per_part |-> DefaultMaxTokens,
     debug |-> FALSE,
     log_file |-> "None"]

\* CodeSnapConfig.from_dict: data is the JSON object, a function of the keys it has.
\* Its values are of the types the settings have (lists, whole numbers, booleans),
\* on which float(), int() and bool() change nothing.
from_dict(data) ==
    [extensions |-> IF "extensions" \in DOMAIN data THEN data["extensions"]
                    ELSE DefaultConfig.extensions,
     exclude_dirs |-> IF "exclude_dirs" \in DOMAIN data
                      THEN DefaultConfig.exclude_dirs \o data["exclude_dirs"]
                      ELSE DefaultConfig.exclude_dirs,
     exclude_patterns |-> IF "exclude_patterns" \in DOMAIN data
                          THEN DefaultConfig.exclude_patterns \o data["exclude_patterns"]
                          ELSE DefaultConfig.exclude_patterns,
     max_file_size_mb |-> IF "max_size" \in DOMAIN data THEN data["max_size"]
                          ELSE DefaultConfig.max_file_size_mb,
     scan_subfolders |-> IF "no_subfolders" \in DOMAIN data THEN ~data["no_subfolders"]
                         ELSE DefaultConfig.scan_subfolders,
     base_name |-> IF "output" \in DOMAIN data THEN data["output"]
                   ELSE DefaultConfig.base_name,
     max_tokens_per_part |-> IF "max_tokens" \in DOMAIN data THEN data["max_tokens"]
                             ELSE DefaultConfig.max_tokens_per_part,
     debug |-> IF "debug" \in DOMAIN data THEN data["debug"] ELSE DefaultConfig.debug,
     log_file |-> DefaultConfig.log_file]

\* CodeSnapConfig.from_file: the file cannot be opened, or is not JSON, or is a
\* JSON object.  The result is the configuration or the exception raised.
from_file(file) ==
    IF file.state = "missing"
    THEN [raised |-> "ConfigurationError", config |-> DefaultConfig]
    ELSE IF file.state = "malformed"
    THEN [raised |-> "ConfigurationError", config |-> DefaultConfig]
    ELSE [raised |-> "none", config |-> from_dict(file.data)]

\* A number that was not given (None).
NoNumber == 0 - 1

\* parser.parse_args(args): every option the command line does not give has its
\* default, which is None (here: the empty list, NoNumber) or False, and "codesnap"
\* for --output.
parse_args(given) ==
    [folder |-> IF "folder" \in DOMAIN given THEN given["folder"] ELSE "none",
     output |-> IF "output" \in DOMAIN given THEN given["output"] ELSE DefaultBaseName,
     extensions |-> IF "extensions" \in DOMAIN given THEN given["extensions"] ELSE <<>>,
     exclude_dirs |-> IF "exclude_dirs" \in DOMAIN given THEN given["exclude_dirs"]
                      ELSE <<>>,
     exclude_patterns |-> IF "exclude_patterns" \in DOMAIN given
                          THEN given["exclude_patterns"] ELSE <<>>,
     exclude_files |-> IF "exclude_files" \in DOMAIN given THEN given["exclude_files"]
                       ELSE <<>>,
     max_size |-> IF "max_size" \in DOMAIN given THEN given["max_size"] ELSE NoNumber,
     max_tokens |-> IF "max_tokens" \in DOMAIN given THEN given["max_tokens"]
                    ELSE NoNumber,
     config |-> "config" \in DOMAIN given,
     repo |-> "repo" \in DOMAIN given,
     no_subfolders |-> "no_subfolders" \in DOMAIN given,
     test |-> "test" \in DOMAIN given,
     debug |-> "debug" \in DOMAIN given]

\* ext if ext.startswith(".") else f".{ext}"
NormalizeExtension(ext) == IF ext # <<>> /\ Head(ext) = "." THEN ext ELSE <<".">> \o ext

\* CodeSnapCLI._apply_cli_overrides
apply_cli_overrides(cfg, args) ==
    [extensions |-> IF args.extensions # <<>>
                    THEN [i \in 1..Len(args.extensions) |->
                             NormalizeExtension(args.extensions[i])]
                    ELSE cfg.extensions,
     exclude_dirs |-> cfg.exclude_dirs \o args.exclude_dirs,
     exclude_patterns |-> cfg.exclude_patterns \o args.exclude_patterns
                          \o args.exclude_files,
     max_file_size_mb |-> IF args.max_size # NoNumber THEN args.max_size
                          ELSE cfg.max_file_size_mb,
     scan_subfolders |-> IF args.no_subfolders THEN FALSE ELSE cfg.scan_subfolders,
     base_name |-> IF args.output # <<>> THEN args.output ELSE cfg.base_name,
     max_tokens_per_part |-> IF args.max_tokens # NoNumber THEN args.max_tokens
                             ELSE cfg.max_tokens_per_part,
     debug |-> IF args.debug THEN TRUE ELSE cfg.debug,
     log_file |-> cfg.log_file]

\* CodeSnapCLI._load_configuration
load_configuration(args, file) ==
    LET loaded == IF args.config /\ file.state # "missing" THEN from_file(file)
                  ELSE [raised |-> "none", config |-> DefaultConfig]
    IN  IF loaded.raised # "none" THEN loaded
        ELSE [raised |-> "none", config |-> apply_cli_overrides(loaded.config, args)]

\* ConfigValidator.validate_config: the exception it raises, if any.
validate_config(cfg) ==
    IF cfg.extensions = <<>> THEN "ValidationError"
    ELSE IF \E i \in 1..Len(cfg.extensions) :
                cfg.extensions[i] = <<>> \/ Head(cfg.extensions[i]) # "."
    THEN "ValidationError"
    ELSE IF cfg.max_file_size_mb <= 0 \/ cfg.max_file_size_mb > 100 THEN "ValidationError"
    ELSE IF cfg.max_tokens_per_part <= 1000 \/ cfg.max_tokens_per_part > 100000
    THEN "ValidationError"
    ELSE IF cfg.log_file = "parent_missing" THEN "ValidationError"
    ELSE "none"

(***************************************************************************)
(* The first steps of CodeSnapCLI.run: the arguments are parsed, the       *)
(* configuration is loaded and validated.  An exception that is raised is  *)
(* kept in pending until the except clauses of run get it.                 *)
(***************************************************************************)
\* parser.parse_args(args); an option the parser does not know ends in SystemExit.
ParseArguments ==
    /\ pc = "parse"
    /\ IF "bad" \in DOMAIN argv
       THEN /\ pending' = "SystemExit"
            /\ pc' = "handler"
            /\ UNCHANGED parsed_args
       ELSE /\ parsed_args' = parse_args(argv)
            /\ pc' = "load"
            /\ UNCHANGED pending
    /\ UNCHANGED <<pipelineVars, outVars, argv, config_file, config, temp_dir, repo_info,
                   exit_code, events>>

\* self.config = self._load_configuration(parsed_args)
LoadConfiguration ==
    /\ pc = "load"
    /\ LET loaded == load_configuration(parsed_args, config_file)
       IN  IF loaded.raised # "none"
           THEN /\ pending' = loaded.raised
                /\ pc' = "handler"
                /\ UNCHANGED config
           ELSE /\ config' = loaded.config
                /\ pc' = "validate"
                /\ UNCHANGED pending
    /\ UNCHANGED <<pipelineVars, outVars, argv, parsed_args, config_file, temp_dir,
                   repo_info, exit_code, events>>

\* ConfigValidator.validate_config(self.config), then setup_logger(...)
ValidateConfig ==
    /\ pc = "validate"
    /\ IF validate_config(config) # "none"
       THEN /\ pending' = validate_config(config)
            /\ pc' = "handler"
       ELSE /\ pc' = IF parsed_args.test THEN "test_mode" ELSE "resolve"
            /\ UNCHANGED pending
    /\ UNCHANGED <<pipelineVars, outVars, argv, parsed_args, config_file, config,
                   temp_dir, repo_info, exit_code, events>>

(***************************************************************************)
(* SpecConfig: the loading of the configuration for every JSON object      *)
(* over the keys from_dict reads and a range of command lines.             *)
(***************************************************************************)
\* The value the configuration file gives to each key it has.
DataValue ==
    [extensions |-> <<Ext_md>>,
     exclude_dirs |-> <<N_src>>,
     exclude_patterns |-> <<Pat_test_any>>,
     max_size |-> 1,
     no_subfolders |-> TRUE,
     output |-> <<"o", "u", "t">>,
     max_tokens |-> 2000,
     debug |-> TRUE]

ConfigKeys == DOMAIN DataValue

JsonObject(keys) == [k \in keys |-> DataValue[k]]

ConfigFiles(keysets) ==
    {[state |-> "valid", data |-> JsonObject(keys)] : keys \in keysets}
    \cup {[state |-> st, data |-> JsonObject({})] : st \in {"missing", "malformed"}}

\* The value the command line gives to each option it has.
ArgValue ==
    [folder |-> "dir",
     output |-> <<"c", "l", "i">>,
     extensions |-> <<<<"t", "s">>>>,
     exclude_dirs |-> <<N_build>>,
     exclude_patterns |-> <<Pat_q>>,
     exclude_files |-> <<N_readme_md>>,
     max_size |-> 3,
     max_tokens |-> 3000,
     config |-> TRUE,
     repo |-> TRUE,
     no_subfolders |-> TRUE,
     test |-> TRUE,
     debug |-> TRUE,
     bad |-> TRUE]

Given(options) == [o \in options |-> ArgValue[o]]

OverrideOptions ==
    {"output", "extensions", "exclude_dirs", "exclude_patterns", "exclude_files",
     "max_size", "max_tokens", "no_subfolders", "debug"}

ConfigArgvs ==
    {Given(base \cup extra) :
        base \in {{"folder"}, {"folder", "config"}},
        extra \in {{}, OverrideOptions} \cup {{o} : o \in OverrideOptions}}
    \cup {Given({"bad"})}

InitConfig ==
    /\ pc = "parse"
    /\ argv \in ConfigArgvs
    /\ config_file \in ConfigFiles(SUBSET ConfigKeys)
    /\ parsed_args = <<>>
    /\ config = <<>>
    /\ temp_dir = FALSE
    /\ repo_info = <<>>
    /\ pending = "none"
    /\ exit_code = -1
    /\ events = {}
    /\ ConfigIdle /\ ScanIdle /\ IncludeIdle /\ ProcIdle /\ SplitIdle /\ OutIdle

NextConfig == ParseArguments \/ LoadConfiguration \/ ValidateConfig

SpecConfig == InitConfig /\ [][NextConfig]_vars

(***************************************************************************)
(* CodeSnapCLI.run after the configuration: the source is resolved (a      *)
(* local folder, or a clone into the temporary directory), then test mode  *)
(* or the workflow runs inside try/finally, and the except clauses of run  *)
(* turn what was raised into the exit code.  temp_dir says whether the     *)
(* temporary clone directory is on disk; events is the history of what     *)
(* took place.  The stages of the workflow are steps with the outcomes     *)
(* they can have; what they compute is the subject of the other            *)
(* specifications.                                                         *)
(***************************************************************************)
\* The exceptions derived from CodeSnapError.
CodeSnapErrors ==
    {"ConfigurationError", "ValidationError", "FileProcessingError", "GitOperationError"}

\* get_repository_info on a folder that is a git repository.
GitInfo ==
    [remote_url |-> CloneInfo.url,
     current_branch |-> <<"m", "a", "i", "n">>,
     repo_name |-> <<"d", "i", "r">>]

\* _resolve_source_path without --repo: the folder has to be given and to be a
\* directory; repo_info is what get_repository_info returns.
ResolveLocal ==
    /\ pc \in {"resolve", "test_mode"}
    /\ ~parsed_args.repo
    /\ IF parsed_args.folder # "dir"
       THEN /\ pending' = "ValidationError"
            /\ pc' = "handler"
            /\ UNCHANGED repo_info
       ELSE /\ repo_info' \in {<<>>, GitInfo}
            /\ pc' = "resolved"
            /\ UNCHANGED pending
    /\ UNCHANGED <<pipelineVars, outVars, argv, parsed_args, config_file, config,
                   temp_dir, exit_code, events>>

CloneBegin_BeforeValidation ==
    /\ pc \in {"validate", "resolve", "test_mode"}
    /\ parsed_args.repo
    /\ temp_dir' = TRUE
    /\ events' = events \cup {"temp_dir_created"}
    /\ pc' = "cloning"
    /\ UNCHANGED <<pipelineVars, outVars, argv, parsed_args, config_file, config,
                   repo_info, pending, exit_code>>

\* clone_repository up to the clone command: a directory left by an earlier run
\* is removed and the target directory is made.
CloneBegin ==
    /\ pc \in {"resolve", "test_mode"}
    /\ parsed_args.repo
    /\ temp_dir' = TRUE
    /\ events' = events \cup {"temp_dir_created"}
    /\ pc' = "cloning"
    /\ UNCHANGED <<pipelineVars, outVars, argv, parsed_args, config_file, config,
                   repo_info, pending, exit_code>>

\* The clone command ends with status 0; _resolve_source_path builds repo_info.
CloneSucceeds ==
    /\ pc = "cloning"
    /\ repo_info' = CloneInfo
    /\ pc' = "resolved"
    /\ UNCHANGED <<pipelineVars, outVars, argv, parsed_args, config_file, config,
                   temp_dir, pending, exit_code, events>>

clone_failure_cleanup_LeavesDirectory(exists) == exists

\* The except clauses of clone_repository: if target_dir.exists(): shutil.rmtree(...)
clone_failure_cleanup(exists) == FALSE

\* The clone command fails (CalledProcessError), or could not be run (Exception):
\* the directory is removed and GitOperationError is raised.
CloneFails ==
    /\ pc = "cloning"
    /\ temp_dir' = clone_failure_cleanup(temp_dir)
    /\ events' = events \cup {"clone_failed"}
    /\ pending' = "GitOperationError"
    /\ pc' = "handler"
    /\ UNCHANGED <<pipelineVars, outVars, argv, parsed_args, config_file, config,
                   repo_info, exit_code>>

\* source_path, repo_info = ...; then the try of _run_test_mode or _execute_workflow
\* is entered.
EnterTry ==
    /\ pc = "resolved"
    /\ pc' = IF parsed_args.test THEN "test_tree" ELSE "workflow_scan"
    /\ UNCHANGED <<pipelineVars, outVars, cliVars>>

\* _run_test_mode: the tree is generated and printed, return 0; or it raises.
TestTree ==
    /\ pc = "test_tree"
    /\ events' = events \cup {"tree"}
    /\ pending' \in {"none", "Exception"}
    /\ pc' = "finally"
    /\ UNCHANGED <<pipelineVars, outVars, argv, parsed_args, config_file, config,
                   temp_dir, repo_info, exit_code>>

\* files = scanner.scan_directory(source_path); if not files: return 0
WorkflowScan ==
    /\ pc = "workflow_scan"
    /\ \E outcome \in {"files", "no_files", "FileProcessingError", "Exception"} :
          /\ events' = events \cup {"scan"}
                       \cup (IF outcome = "no_files" THEN {"no_files"} ELSE {})
          /\ pending' = IF outcome \in {"files", "no_files"} THEN "none" ELSE outcome
          /\ pc' = IF outcome = "files" THEN "workflow_tree" ELSE "finally"
    /\ UNCHANGED <<pipelineVars, outVars, argv, parsed_args, config_file, config,
                   temp_dir, repo_info, exit_code>>

\* structure = scanner.generate_directory_tree(...)
WorkflowTree ==
    /\ pc = "workflow_tree"
    /\ events' = events \cup {"tree"}
    /\ \E outcome \in {"tree", "Exception"} :
          /\ pending' = IF outcome = "tree" THEN "none" ELSE outcome
          /\ pc' = IF outcome = "tree" THEN "workflow_process" ELSE "finally"
    /\ UNCHANGED <<pipelineVars, outVars, argv, parsed_args, config_file, config,
                   temp_dir, repo_info, exit_code>>

\* file_contents = processor.process_files(files); if not file_contents: return 0
WorkflowProcess ==
    /\ pc = "workflow_process"
    /\ \E outcome \in {"records", "no_records", "Exception"} :
          /\ events' = events \cup {"process"}
                       \cup (IF outcome = "no_records" THEN {"no_records"} ELSE {})
          /\ pending' = IF outcome = "Exception" THEN outcome ELSE "none"
          /\ pc' = IF outcome = "records" THEN "workflow_format" ELSE "finally"
    /\ UNCHANGED <<pipelineVars, outVars, argv, parsed_args, config_file, config,
                   temp_dir, repo_info, exit_code>>

\* parts = formatter.format_content(...)
WorkflowFormat ==
    /\ pc = "workflow_format"
    /\ events' = events \cup {"format"}
    /\ \E outcome \in {"parts", "Exception"} :
          /\ pending' = IF outcome = "parts" THEN "none" ELSE outcome
          /\ pc' = IF outcome = "parts" THEN "workflow_save" ELSE "finally"
    /\ UNCHANGED <<pipelineVars, outVars, argv, parsed_args, config_file, config,
                   temp_dir, repo_info, exit_code>>

\* created_files = formatter.save_parts(parts, output_dir); return 0.  A write
\* that fails is a FileProcessingError, an input() at end of file an EOFError;
\* parts written before either stay written.
WorkflowSave ==
    /\ pc = "workflow_save"
    /\ \E outcome \in {"saved", "FileProcessingError", "Exception"} :
       \E wrote \in BOOLEAN :
          /\ outcome = "saved" => wrote
          /\ events' = events \cup {"save"} \cup (IF wrote THEN {"write"} ELSE {})
          /\ pending' = IF outcome = "saved" THEN "none" ELSE outcome
    /\ pc' = "finally"
    /\ UNCHANGED <<pipelineVars, outVars, argv, parsed_args, config_file, config,
                   temp_dir, repo_info, exit_code>>

\* The finally clause of _run_test_mode and _execute_workflow, then the return of
\* 0 through run, or the exception on its way to the except clauses of run.
Finally ==
    /\ pc = "finally"
    /\ temp_dir' = IF "temp_dir" \in DOMAIN repo_info THEN FALSE ELSE temp_dir
    /\ IF pending = "none"
       THEN /\ exit_code' = 0
            /\ pc' = "exit"
       ELSE /\ pc' = "handler"
            /\ UNCHANGED exit_code
    /\ UNCHANGED <<pipelineVars, outVars, argv, parsed_args, config_file, config,
                   repo_info, pending, events>>

\* Where a KeyboardInterrupt goes from a position of run: to the finally clause
\* from inside the two try/finally blocks, to the except clauses of run from
\* anywhere else (clone_repository catches Exception, which it is not).
InFinallyBlock ==
    {"test_tree", "workflow_scan", "workflow_tree", "workflow_process", "workflow_format",
     "workflow_save"}

OutsideFinallyBlock ==
    {"parse", "load", "validate", "resolve", "test_mode", "cloning", "resolved", "finally"}

\* The user interrupts the run (KeyboardInterrupt).
Interrupt ==
    /\ pc \in InFinallyBlock \cup OutsideFinallyBlock
    /\ pending' = "KeyboardInterrupt"
    /\ pc' = IF pc \in InFinallyBlock THEN "finally" ELSE "handler"
    /\ events' = events \cup {"interrupted"}
    /\ UNCHANGED <<pipelineVars, outVars, argv, parsed_args, config_file, config,
                   temp_dir, repo_info, exit_code>>

run_except_InterruptAsError(raised) == 1

\* The except clauses of run: the value returned for what was raised.
run_except(raised) == IF raised = "KeyboardInterrupt" THEN 130 ELSE 1

\* except KeyboardInterrupt / CodeSnapError / Exception of run.  SystemExit, from
\* the argument parser, is none of them and leaves run without a return value.
Handler ==
    /\ pc = "handler"
    /\ IF pending = "SystemExit"
       THEN /\ pc' = "exit_raised"
            /\ UNCHANGED exit_code
       ELSE /\ exit_code' = run_except(pending)
            /\ pc' = "exit"
    /\ UNCHANGED <<pipelineVars, outVars, argv, parsed_args, config_file, config,
                   temp_dir, repo_info, pending, events>>

(***************************************************************************)
(* SpecCli: runs of CodeSnapCLI.run over a range of command lines and      *)
(* configuration files, with or without a clone directory left by an       *)
(* earlier run.                                                            *)
(***************************************************************************)
\* A --max-tokens value validate_tokens rejects.
TooFewTokens == 500

CliOptions == {"folder", "repo", "test", "config", "max_tokens", "bad"}

CliArgvs(optionsets) ==
    {[o \in options |-> IF o = "folder" THEN folder
                        ELSE IF o = "max_tokens" THEN tokens ELSE ArgValue[o]] :
        options \in optionsets,
        folder \in {"dir", "missing"},
        tokens \in {ArgValue.max_tokens, TooFewTokens}}

InitCli ==
    /\ pc = "parse"
    /\ argv \in CliArgvs(SUBSET CliOptions)
    /\ config_file \in ConfigFiles({{}, {"output"}})
    /\ temp_dir \in BOOLEAN
    /\ parsed_args = <<>>
    /\ config = <<>>
    /\ repo_info = <<>>
    /\ pending = "none"
    /\ exit_code = -1
    /\ events = {}
    /\ ConfigIdle /\ ScanIdle /\ IncludeIdle /\ ProcIdle /\ SplitIdle /\ OutIdle

NextCli ==
    \/ ParseArguments \/ LoadConfiguration \/ ValidateConfig
    \/ ResolveLocal \/ CloneBegin \/ CloneSucceeds \/ CloneFails \/ EnterTry
    \/ TestTree
    \/ WorkflowScan \/ WorkflowTree \/ WorkflowProcess \/ WorkflowFormat \/ WorkflowSave
    \/ Finally \/ Interrupt \/ Handler

SpecCli == InitCli /\ [][NextCli]_vars

(***************************************************************************)
(* SpecValidate: validate_config on configurations around the bounds of    *)
(* its three checks.                                                       *)
(***************************************************************************)
\* Extension lists: empty, dotted, undotted, a dotted one followed by an
\* undotted one, and one holding the empty string.
ValidatorExtensions ==
    {<<>>, <<Ext_py>>, <<<<"p", "y">>>>, <<Ext_py, <<"j", "s">>>>, <<<<>>>>}

ValidatorSizes == {0 - 1, 0, 1, DefaultMaxFileSizeMb, 100, 101}

ValidatorTokens == {999, 1000, 1001, DefaultMaxTokens, 100000, 100001}

ValidatorLogFiles == {"None", "parent_exists", "parent_missing"}

ValidatorConfigs ==
    {[DefaultConfig EXCEPT !.extensions = e, !.max_file_size_mb = s,
                           !.max_tokens_per_part = t, !.log_file = l] :
        e \in ValidatorExtensions, s \in ValidatorSizes, t \in ValidatorTokens,
        l \in ValidatorLogFiles}

InitValidate ==
    /\ pc = "validate"
    /\ argv = Given({"folder"})
    /\ parsed_args = parse_args(argv)
    /\ config \in ValidatorConfigs \cup {DefaultConfig}
    /\ config_file = <<>>
    /\ temp_dir = FALSE
    /\ repo_info = <<>>
    /\ pending = "none"
    /\ exit_code = -1
    /\ events = {}
    /\ ConfigIdle /\ ScanIdle /\ IncludeIdle /\ ProcIdle /\ SplitIdle /\ OutIdle

NextValidate == ValidateConfig

SpecValidate == InitValidate /\ [][NextValidate]_vars

(***************************************************************************)
(* SpecRepoRun: _execute_workflow on a clone, from the call of             *)
(* process_files on: the pool and its workers, what is raised inside the   *)
(* with block, the executor's __exit__, the rest of the try block and the  *)
(* finally clause that removes the clone directory.                        *)
(***************************************************************************)
\* Something is raised in the main process inside the with block of
\* process_files (a KeyboardInterrupt while as_completed waits, an Exception
\* outside the try of the loop body): control goes to the executor's __exit__.
ProcessRaises ==
    /\ pc = "collect"
    /\ \E raised \in {"KeyboardInterrupt", "Exception"} :
          /\ pending' = raised
          /\ events' = events \cup (IF raised = "KeyboardInterrupt"
                                    THEN {"interrupted"} ELSE {})
    /\ pc' = "pool_exit"
    /\ UNCHANGED <<pipelineVars, outVars, argv, parsed_args, config_file, config,
                   temp_dir, repo_info, exit_code>>

\* ProcessPoolExecutor.__exit__: shutdown(wait=True) has joined the workers,
\* which have run every call that was submitted; what was raised goes on.
PoolShutdown ==
    /\ pc = "pool_exit"
    /\ \A i \in 1..Len(futures) : futures[i].state \notin {"pending", "running"}
    /\ pc' = "finally"
    /\ UNCHANGED <<pipelineVars, outVars, cliVars>>

\* A KeyboardInterrupt while shutdown(wait=True) waits for the workers: the
\* join is left with the workers as they are, and the interrupt goes on.
ShutdownInterrupted ==
    /\ pc = "pool_exit"
    /\ pending' = "KeyboardInterrupt"
    /\ events' = events \cup {"interrupted"}
    /\ pc' = "finally"
    /\ UNCHANGED <<pipelineVars, outVars, argv, parsed_args, config_file, config,
                   temp_dir, repo_info, exit_code>>

\* file_contents = processor.process_files(files) has returned;
\* if not file_contents: return 0
ProcessDone ==
    /\ pc = "returned"
    /\ events' = events \cup {"process"}
                 \cup (IF results = <<>> THEN {"no_records"} ELSE {})
    /\ pc' = IF results = <<>> THEN "finally" ELSE "workflow_format"
    /\ UNCHANGED <<pipelineVars, outVars, argv, parsed_args, config_file, config,
                   temp_dir, repo_info, pending, exit_code>>

InitRepoRun ==
    /\ pc = "process"
    /\ files \in ProcLists(MaxFiles)
    /\ max_file_size_mb = DefaultMaxFileSizeMb
    /\ extensions = {}
    /\ exclude_dirs = {}
    /\ exclude_patterns = {}
    /\ scan_subfolders = TRUE
    /\ max_tokens_per_part = 0
    /\ fs = <<>> /\ walk_stack = <<>> /\ listed = {} /\ tree = <<>>
    /\ process_args = <<>>
    /\ futures = <<>>
    /\ results = <<>>
    /\ workers \in 1..MaxWorkers
    /\ IncludeIdle /\ SplitIdle /\ OutIdle
    /\ argv = Given({"repo"})
    /\ parsed_args = parse_args(argv)
    /\ config_file = <<>>
    /\ config = DefaultConfig
    /\ temp_dir = TRUE
    /\ repo_info = CloneInfo
    /\ pending = "none"
    /\ exit_code = -1
    /\ events = {"temp_dir_created", "scan", "tree"}

NextRepoRun ==
    \/ NextProc
    \/ ProcessRaises \/ PoolShutdown \/ ShutdownInterrupted
    \/ ProcessDone \/ WorkflowFormat \/ WorkflowSave
    \/ Finally \/ Interrupt \/ Handler

SpecRepoRun == InitRepoRun /\ [][NextRepoRun]_vars

(***************************************************************************)
(* SpecPipeline: process_files, format_content and save_parts one after    *)
(* the other, in the order _execute_workflow calls them, into an output    *)
(* directory that is empty or already holds the first part.  The early     *)
(* return of _execute_workflow on an empty result is left out, so that     *)
(* save_parts is also called without parts.                                *)
(***************************************************************************)
InitPipeline ==
    /\ pc = "process"
    /\ files \in RunLists(MaxFiles)
    /\ max_file_size_mb = DefaultMaxFileSizeMb
    /\ extensions = {}
    /\ exclude_dirs = {}
    /\ exclude_patterns = {}
    /\ scan_subfolders = TRUE
    /\ max_tokens_per_part = MaxBudget
    /\ fs = <<>> /\ walk_stack = <<>> /\ listed = {}
    /\ tree = <<RootLine>>
    /\ process_args = <<>>
    /\ futures = <<>>
    /\ results = <<>>
    /\ workers \in 1..MaxWorkers
    /\ IncludeIdle /\ SplitIdle /\ CliIdle
    /\ base_name = DefaultBaseName
    /\ overwrite_existing = FALSE
    /\ documents = <<>>
    /\ \E existing \in {{}, {1}} :
           disk = [n \in {part_filename(base_name, k) : k \in existing} |-> OldContent]
    /\ disk_before = <<>>
    /\ created_files = <<>>
    /\ answers = <<>>
    /\ previous = <<>>

NextPipeline == NextProc \/ NextOut

SpecPipeline == InitPipeline /\ [][NextPipeline]_vars

(***************************************************************************)
(* Claims about _split_into_parts (SpecSplit).                             *)
(***************************************************************************)
Oversized(snippet) == estimate_token_count(snippet) > max_tokens_per_part

\* C1: token-budget law: every part other than a part made of one single
\* oversized snippet has floor(len(body)/4) <= max_tokens_per_part.
C1_TokenBudgetLaw ==
    pc = "split_done" =>
        \A p \in 1..Len(parts) :
            \/ estimate_token_count(parts[p]) <= max_tokens_per_part
            \/ \E k \in 1..Len(snippets) :
                   parts[p] = snippets[k] /\ Oversized(snippets[k])

\* C2: the part bodies, concatenated in order, are exactly the input
\* snippets concatenated in their input order.
C2_ConcatPreserved ==
    pc = "split_done" => Concat(parts) = Concat(snippets)

C2_Witness ==
    /\ pc = "split_done"
    /\ Len(snippets) = MaxSnippets
    /\ Len(parts) >= 2
    /\ \E p \in 1..Len(parts) : \E k \in 1..Len(snippets) :
           Len(parts[p]) > Len(snippets[k]) /\ parts[p][1] = snippets[k][1]

\* The snippets from..to, concatenated.
Run(from, to) == Concat(SubSeq(snippets, from, to))

\* ends is the set of the indices of the snippets that close a part.
RunStart(ends, e) ==
    IF \E d \in ends : d < e
    THEN (CHOOSE d \in ends : d < e /\ \A c \in ends : c < e => c <= d) + 1
    ELSE 1

PartOfEnd(ends, e) == Cardinality({d \in ends : d <= e})

IsPartition(ends) ==
    /\ Cardinality(ends) = Len(parts)
    /\ (Len(snippets) > 0) => (Len(snippets) \in ends)
    /\ \A e \in ends : parts[PartOfEnd(ends, e)] = Run(RunStart(ends, e), e)
    /\ \A e \in ends : \A k \in RunStart(ends, e)..e :
           Oversized(snippets[k]) => RunStart(ends, e) = e

\* C3: the parts are non-empty runs of whole consecutive snippets (no
\* snippets, no parts) and an oversized snippet is alone in its part.
C3_WholeSnippetRuns ==
    pc = "split_done" =>
        /\ \A p \in 1..Len(parts) : parts[p] # <<>>
        /\ (snippets = <<>>) => (parts = <<>>)
        /\ \E ends \in SUBSET (1..Len(snippets)) : IsPartition(ends)

C3_Witness ==
    /\ pc = "split_done"
    /\ Len(parts) = 3
    /\ Oversized(snippets[2])
    /\ ~Oversized(snippets[1])
    /\ ~Oversized(snippets[3])
    /\ parts[2] = snippets[2]

(***************************************************************************)
(* Claims about the per-file steps (SpecFile).                             *)
(***************************************************************************)
\* The extension test as specified: case-insensitive on both sides.
ExtensionIncluded(f) ==
    LowerText(Suffix(f.name)) \in {LowerText(e) : e \in extensions}

\* The extension test as the code performs it.
ExtensionAccepted(f) == LowerText(Suffix(f.name)) \in extensions

MatchesNoPattern(f) == \A pattern \in exclude_patterns : ~fnmatch(f.name, pattern)

WithinCeiling(f) == f.size <= max_file_size_mb * BytesPerMb

\* C6: _should_include_file returns true iff the extension, compared
\* case-insensitively, is in the configured set, the name matches no exclude
\* pattern and the size does not exceed the ceiling, for every configured
\* extension set (upper-case entries included).
C6_IncludeIff ==
    (pc = "file_checked" /\ candidate.stat_ok) =>
        (included <=> /\ ExtensionIncluded(candidate)
                      /\ MatchesNoPattern(candidate)
                      /\ WithinCeiling(candidate))

\* C9: a file larger than max_file_size_mb * 1048576 bytes is never yielded
\* and gets no record; a readable file at or below that size (equal
\* included) gets a record and is yielded when its extension is accepted
\* and no pattern excludes it.
C9_SizeThreshold ==
    pc = "file_done" =>
        /\ ~WithinCeiling(candidate) => (files = <<>> /\ results = <<None>>)
        /\ (WithinCeiling(candidate) /\ candidate.stat_ok /\ candidate.readable) =>
               /\ results # <<None>>
               /\ results[1].size_bytes = candidate.size
               /\ (ExtensionAccepted(candidate) /\ MatchesNoPattern(candidate)) =>
                      files = <<<<candidate.name>>>>

\* A file of exactly the ceiling's size was yielded and extracted.
C9_Witness ==
    /\ pc = "file_done"
    /\ candidate.size = max_file_size_mb * BytesPerMb
    /\ files = <<<<candidate.name>>>>
    /\ results # <<None>>

\* A file one byte over the ceiling, otherwise acceptable, was dropped by both.
C9_WitnessOver ==
    /\ pc = "file_done"
    /\ candidate.size = max_file_size_mb * BytesPerMb + 1
    /\ candidate.readable
    /\ ExtensionAccepted(candidate) /\ MatchesNoPattern(candidate)
    /\ files = <<>>
    /\ results = <<None>>

(***************************************************************************)
(* Claims about scan_directory and generate_directory_tree (Spec).         *)
(***************************************************************************)
FileNodes == {n \in 1..Len(fs) : fs[n].kind = "file"}

\* The names of the directories above entry n, from the root down.
DirParts(n) == RelParts(fs[n].parent)

\* The checks of _should_include_file, each on its own.
Includable(n) ==
    /\ ExtensionAccepted(fs[n])
    /\ MatchesNoPattern(fs[n])
    /\ fs[n].stat_ok
    /\ WithinCeiling(fs[n])

\* The walk comes to list the directory the entry lies in and looks at its files.
InWalkScope(n) ==
    /\ \A k \in 1..Len(DirParts(n)) : DirParts(n)[k] \notin exclude_dirs
    /\ scan_subfolders \/ fs[n].parent = Root

\* C4: no file yielded by scan_directory has a relative path with a segment
\* in exclude_dirs.
C4_NoExcludedSegment ==
    \A k \in 1..Len(files) :
        \A j \in 1..Len(files[k]) : files[k][j] \notin exclude_dirs

\* What the walk does guarantee: no directory named in exclude_dirs is ever listed
\* below the root, and no yielded file lies below such a directory.
ExcludedDirsPruned ==
    /\ \A d \in listed : d # Root => fs[d].name \notin exclude_dirs
    /\ \A k \in 1..Len(files) :
           \A j \in 1..(Len(files[k]) - 1) : files[k][j] \notin exclude_dirs

\* C5: the rendered tree has no entry (directory, file or link) whose name
\* is in exclude_dirs and no file whose name matches an exclude pattern.
C5_TreeOmitsExcluded ==
    pc = "done" =>
        \A k \in 2..Len(tree) :
            /\ tree[k].name \notin exclude_dirs
            /\ fs[tree[k].entry].kind = "file" => MatchesNoPattern(fs[tree[k].entry])

\* C7: scan_directory yields no file whose bare name matches an exclude
\* pattern and yields every other file in the scope of the walk that passes
\* the extension and size checks; test.* over test.py, test.js and main.py
\* leaves exactly main.py.
GlobExample ==
    /\ exclude_patterns = {Pat_test_any}
    /\ Len(fs) = 3
    /\ \A n \in 1..3 : fs[n].parent = Root /\ fs[n].kind = "file"
    /\ {fs[n].name : n \in 1..3} = {N_test_py, N_test_js, N_main_py}
    /\ \A n \in 1..3 : WithinCeiling(fs[n])

C7_GlobExclusion ==
    pc \in {"scanned", "done"} =>
        /\ \A k \in 1..Len(files) :
               \A pattern \in exclude_patterns :
                   ~fnmatch(files[k][Len(files[k])], pattern)
        /\ \A n \in FileNodes :
               (InWalkScope(n) /\ Includable(n)) => RelParts(n) \in Range(files)
        /\ GlobExample => files = <<<<N_main_py>>>>

C7_Witness ==
    /\ pc = "scanned"
    /\ GlobExample
    /\ files = <<<<N_main_py>>>>

\* C8: without scan_subfolders the files yielded are exactly the includable
\* files that are immediate children of the root.
C8_NoSubfolders ==
    (pc \in {"scanned", "done"} /\ ~scan_subfolders) =>
        /\ Range(files) = {RelParts(n) : n \in {m \in FileNodes :
                                                   fs[m].parent = Root /\ Includable(m)}}
        /\ Len(files) = Cardinality(Range(files))

\* A run without scan_subfolders that yielded a file, over a tree with an
\* includable file below a directory that no rule excludes.
C8_Witness ==
    /\ pc = "scanned"
    /\ ~scan_subfolders
    /\ files # <<>>
    /\ \E n \in FileNodes :
           /\ Len(DirParts(n)) >= 1
           /\ \A k \in 1..Len(DirParts(n)) : DirParts(n)[k] \notin exclude_dirs
           /\ Includable(n)

(***************************************************************************)
(* Claims about process_files (SpecProc).                                  *)
(***************************************************************************)
\* The extraction of a file succeeds: it is there, within the ceiling and readable,
\* and its future delivers the record.
Extracted(f) ==
    /\ f.stat_ok
    /\ f.size <= max_file_size_mb * BytesPerMb
    /\ f.readable
    /\ f.result_ok

RecordsOf(f) == {k \in 1..Len(results) : results[k] # None /\ results[k].relative_path = f.rel}

\* C10: whatever the order of completion, process_files returns exactly one
\* record for every input file whose extraction succeeded and none for the
\* others; a failed extraction neither removes nor duplicates another
\* file's record, and the batch always runs to its end.
C10_OneRecordPerSuccess ==
    /\ pc = "returned" =>
           /\ \A i \in 1..Len(files) :
                  Cardinality(RecordsOf(files[i])) = IF Extracted(files[i]) THEN 1 ELSE 0
           /\ Len(results) = Cardinality({i \in 1..Len(files) : Extracted(files[i])})
           /\ \A i \in 1..Len(futures) : futures[i].state = "collected"
    /\ pc \in {"process", "collect"} => ENABLED NextProc

\* A batch of three where the first future ended with an exception and the other
\* two delivered their records, the last file's first.
C10_Witness ==
    /\ pc = "returned"
    /\ Len(files) = 3
    /\ ~files[1].result_ok
    /\ Extracted(files[2]) /\ Extracted(files[3])
    /\ Len(results) = 2
    /\ results[1].relative_path = files[3].rel
    /\ results[2].relative_path = files[2].rel

(***************************************************************************)
(* Claims about the order of the output (SpecRuns).                        *)
(***************************************************************************)
FilesHeadings == {"## Files\n\n", "\n## Files (Continued)\n\n"}

\* What follows the header in a document: the snippets of the part.
BodyOf(document) ==
    LET k == CHOOSE k \in 1..Len(document) : document[k] \in FilesHeadings
    IN  SubSeq(document, k + 1, Len(document))

SnippetBodies(docs) == Concat([i \in 1..Len(docs) |-> BodyOf(docs[i])])

\* The snippets of the files that were extracted, in the order the walker yielded
\* the files.
SnippetsInWalkerOrder ==
    LET extracted == SelectSeq(files, Extracted)
    IN  Concat([i \in 1..Len(extracted) |->
                   format_file_snippet(
                       process_single_file(extracted[i], extracted[i].rel,
                                           max_file_size_mb))])

\* C11: the snippets of the output documents are in the order in which the
\* walker yielded the files, for every number of workers and every order in
\* which the extractions complete.
C11_WalkerOrder ==
    pc = "formatted" => SnippetBodies(documents) = SnippetsInWalkerOrder

\* A document with the lines that carry the timestamp left out.
WithoutTimestampLines(document) ==
    LET Kept(k) == /\ document[k] # GeneratedOn
                   /\ (k > 1 => document[k - 1] # GeneratedOn)
                   /\ (k > 2 => document[k - 2] # GeneratedOn)
        keep == SelectSeq([k \in 1..Len(document) |-> k], Kept)
    IN  [j \in 1..Len(keep) |-> document[keep[j]]]

Comparable(docs) == [i \in 1..Len(docs) |-> WithoutTimestampLines(docs[i])]

\* C12: a second run over the same files with the same configuration gives
\* the same sequence of documents as the first, timestamp lines aside,
\* whatever the scheduling of the workers in either run.
C12_Idempotent ==
    (pc = "formatted" /\ previous # <<>>) =>
        Comparable(documents) = Comparable(previous[1])

(***************************************************************************)
(* Claims about save_parts, the headers and the snippets (SpecOut).        *)
(***************************************************************************)
\* The user answered y to the prompt: the letter, in either case, with blanks
\* around it at most.
AnsweredY(response) ==
    LET NonBlank(c) == c \notin Blanks
    IN  SelectSeq(response, NonBlank) \in {<<"y">>, <<"Y">>}

PartFileOf(k) == base_name \o <<"_part_">> \o Str(k) \o <<".md">>

Declined(k) == answers[k].asked /\ ~AnsweredY(answers[k].response)

\* C16: save_parts changes the content of a file that was already there only
\* if overwrite_existing is true or the user answered y to the prompt for
\* that file; a declined file keeps its content, is not among the created
\* files, and the loop goes on with the parts that follow it (only an
\* interrupt ends it there).
C16_NoSilentOverwrite ==
    pc \in {"save_loop", "saved", "save_raised"} =>
        /\ \A name \in DOMAIN disk_before :
               disk[name] # disk_before[name] =>
                   \/ overwrite_existing
                   \/ \E k \in 1..Len(answers) :
                          /\ name = PartFileOf(k)
                          /\ answers[k].asked
                          /\ AnsweredY(answers[k].response)
        /\ \A k \in 1..Len(answers) :
               (answers[k].outcome # "input_raised" /\ Declined(k)) =>
                   /\ disk[PartFileOf(k)] = disk_before[PartFileOf(k)]
                   /\ \A j \in 1..Len(created_files) : created_files[j] # PartFileOf(k)
                   /\ (k = Len(answers) /\ pc = "save_raised") =>
                          pending = "KeyboardInterrupt"
        /\ pc = "saved" =>
               /\ Len(answers) = Len(documents)
               /\ \A k \in 1..Len(documents) :
                      ~Declined(k) =>
                          /\ disk[PartFileOf(k)] = documents[k]
                          /\ \E j \in 1..Len(created_files) : created_files[j] = PartFileOf(k)

\* Three parts over three existing files: the first is declined, the second is
\* overwritten on a "y", the third is declined with an empty answer.
C16_Witness ==
    /\ pc = "saved"
    /\ ~overwrite_existing
    /\ Len(answers) = 3
    /\ Declined(1) /\ disk[PartFileOf(1)] = OldContent
    /\ answers[2].asked /\ AnsweredY(answers[2].response)
    /\ disk[PartFileOf(2)] = documents[2]
    /\ Declined(3) /\ answers[3].response = <<>>
    /\ created_files = <<PartFileOf(2)>>

StartsWith(text, piece) ==
    Len(text) >= Len(piece) /\ SubSeq(text, 1, Len(piece)) = piece

EndsWith(text, piece) ==
    /\ Len(text) >= Len(piece)
    /\ SubSeq(text, Len(text) - Len(piece) + 1, Len(text)) = piece

Contains(text, piece) ==
    \E k \in 0..(Len(text) - Len(piece)) : SubSeq(text, k + 1, k + Len(piece)) = piece

\* The header of a document: everything up to its Files heading.
HeaderOf(document) ==
    LET k == CHOOSE k \in 1..Len(document) : document[k] \in FilesHeadings
    IN  SubSeq(document, 1, k)

TitleOf(k, total) == <<TitleOpen>> \o Str(k) \o <<" of ">> \o Str(total) \o <<")">>

TreeBlock == Fence \o <<"\n">> \o TreeText(tree) \o <<"\n">> \o Fence

IsInstructions(piece) == piece = generate_instructions[1]

IsFenceChar(piece) == piece = Backquote

\* C19: the parts are numbered 1..N in order and every header states its own
\* index and the total N; part 1, and no other part, carries the
\* instructions and the directory tree; parts 2..N carry a continuation
\* header; part k is written to <output>_part_<k>.md.
C19_PartNumbering ==
    /\ pc \in {"formatted", "save_loop", "saved", "save_raised"} =>
           \A k \in 1..Len(documents) :
               LET header == HeaderOf(documents[k])
               IN  /\ Contains(header, TitleOf(k, Len(documents)))
                   /\ Len(SelectSeq(header, LAMBDA x : x = TitleOpen)) = 1
                   /\ k = 1 =>
                          /\ IsInstructions(Head(header))
                          /\ Contains(header, <<StructureHeading>> \o TreeBlock)
                          /\ ~Contains(header, <<" - Continued">>)
                   /\ k > 1 =>
                          /\ SelectSeq(header, IsInstructions) = <<>>
                          /\ SelectSeq(header, IsFenceChar) = <<>>
                          /\ ~Contains(header, <<StructureHeading>>)
                          /\ StartsWith(header, TitleOf(k, Len(documents))
                                                \o <<" - Continued">>)
    /\ pc \in {"save_loop", "saved", "save_raised"} =>
           /\ \A k \in 1..Len(answers) :
                  answers[k].outcome = "written" => disk[PartFileOf(k)] = documents[k]
           /\ \A j \in 1..Len(created_files) :
                  \E k \in 1..Len(answers) :
                      answers[k].outcome = "written" /\ created_files[j] = PartFileOf(k)
           /\ \A name \in DOMAIN disk :
                  \/ name \in DOMAIN disk_before /\ disk[name] = disk_before[name]
                  \/ \E k \in 1..Len(answers) :
                         name = PartFileOf(k) /\ disk[name] = documents[k]
                  \/ \E k \in 1..Len(answers) :
                         name = PartFileOf(k) /\ answers[k].outcome = "write_interrupted"

\* Three parts, all written, none of them there before.
C19_Witness ==
    /\ pc = "saved"
    /\ Len(documents) = 3
    /\ disk_before = <<>>
    /\ \A k \in 1..3 : disk[PartFileOf(k)] = documents[k]
    /\ Len(created_files) = 3

MdExtension == <<"m", "d">>

FileHeadingOf(record) ==
    <<"#", "#", "#", " ", "F", "i", "l", "e", ":", " ">>
    \o PathText(record.relative_path) \o <<"\n">>

\* What stands between the heading and the closing separator of a snippet.
SnippetMiddle(record) ==
    LET snippet == format_file_snippet(record)
        from == Len(separator) + Len(FileHeadingOf(record)) + 1
    IN  SubSeq(snippet, from, Len(snippet) - Len(separator))

\* C20: a snippet is the separator line, the heading with the relative path,
\* the content (bare for a record whose extension is md, and otherwise in a
\* fence tagged with the extension), and the same separator line again; the
\* content is in it unmodified.
C20_SnippetShape ==
    pc = "formatted" =>
        /\ \A i \in 1..Len(results) :
               LET record == results[i]
                   snippet == format_file_snippet(record)
               IN  /\ StartsWith(snippet, separator \o FileHeadingOf(record))
                   /\ EndsWith(snippet, separator)
                   /\ Len(snippet) >= 2 * Len(separator) + Len(FileHeadingOf(record))
                   /\ IF record.extension = MdExtension
                      THEN SnippetMiddle(record) = <<"\n">> \o record.content \o <<"\n">>
                      ELSE SnippetMiddle(record) =
                               Fence \o record.extension \o <<"\n">>
                               \o record.content \o <<"\n">> \o Fence \o <<"\n">>
        /\ SnippetBodies(documents) =
               Concat([i \in 1..Len(results) |-> format_file_snippet(results[i])])

\* A python file, a README.md and an A.MD, the last one holding a separator line.
C20_Witness ==
    /\ pc = "formatted"
    /\ Len(results) = 3
    /\ results[1].extension = <<"p", "y">>
    /\ results[2].extension = MdExtension
    /\ results[3].extension = MdExtension
    /\ results[3].relative_path = <<N_upper_md>>
    /\ results[3].content = separator

(***************************************************************************)
(* Claims about the configuration (SpecConfig).                            *)
(***************************************************************************)
\* The command-line options that set what a key of the configuration file sets.
OptionsOf(key) ==
    IF key = "exclude_patterns" THEN {"exclude_patterns", "exclude_files"} ELSE {key}

\* The value in effect for the run, as the key of the configuration file states it.
InEffect(key) ==
    CASE key = "extensions" -> config.extensions
      [] key = "exclude_dirs" -> config.exclude_dirs
      [] key = "exclude_patterns" -> config.exclude_patterns
      [] key = "max_size" -> config.max_file_size_mb
      [] key = "no_subfolders" -> ~config.scan_subfolders
      [] key = "output" -> config.base_name
      [] key = "max_tokens" -> config.max_tokens_per_part
      [] key = "debug" -> config.debug

\* The two keys whose values from_dict appends to the default list.
ListKeys == {"exclude_dirs", "exclude_patterns"}

\* C18: for each key of the configuration file, the value in effect is the
\* value of the file whenever no command-line option for it was given.  For
\* the two lists of exclusions the formula asks less than the claim: that the
\* entries of the file are in effect.
C18_ConfigPrecedence ==
    (pc = "validate" /\ parsed_args.config /\ config_file.state = "valid") =>
        \A key \in DOMAIN config_file.data :
            (OptionsOf(key) \cap DOMAIN argv = {}) =>
                IF key \in ListKeys
                THEN Range(config_file.data[key]) \subseteq Range(InEffect(key))
                ELSE InEffect(key) = config_file.data[key]

(***************************************************************************)
(* Claims about CodeSnapCLI.run (SpecCli).                                 *)
(***************************************************************************)
\* run has ended: it returned, or the argument parser's SystemExit left it.
RunEnded == pc \in {"exit", "exit_raised"}

\* C13: a temporary clone directory made during the run is not on disk any
\* more when the run has ended, whatever the way it ended.
C13_TempDirRemoved ==
    (RunEnded /\ "temp_dir_created" \in events) => ~temp_dir

\* The stages of the workflow that read the source or write output.
WorkStages == {"scan", "tree", "process", "format", "save", "write"}

C15_CloneFailure ==
    "clone_failed" \in events =>
        /\ ~temp_dir
        /\ events \cap WorkStages = {}
        /\ pending = "GitOperationError"
        /\ pc \in {"handler", "exit"}
        /\ pc = "exit" => exit_code = 1

C15_Witness ==
    /\ pc = "exit"
    /\ "clone_failed" \in events
    /\ exit_code = 1
    /\ events \cap WorkStages = {}

\* C17: from_file raises ConfigurationError for a file that is missing and for
\* one that is not JSON, and a run whose --config names such a file goes to
\* the except clauses of run with it and returns 1 (unless interrupted first).
C17_ConfigFileErrors ==
    ("config" \in DOMAIN argv /\ "bad" \notin DOMAIN argv
         /\ config_file.state \in {"missing", "malformed"}) =>
        /\ from_file(config_file).raised = "ConfigurationError"
        /\ (pc \notin {"parse", "load"} /\ "interrupted" \notin events) =>
               /\ pending = "ConfigurationError"
               /\ pc \in {"handler", "exit"}
               /\ pc = "exit" => exit_code = 1

(***************************************************************************)
(* Claims about validate_config (SpecValidate).                            *)
(***************************************************************************)
\* C21: for a configuration without a log file, validate_config raises
\* ValidationError exactly when the extension list is empty, an extension
\* does not start with ".", the size is not positive or above 100, or the
\* tokens are below 1000 or above 100000; the default configuration passes.
C21_ValidationBounds ==
    (pc # "validate" /\ config.log_file = "None") =>
        /\ pending = "ValidationError" <=>
               \/ config.extensions = <<>>
               \/ \E i \in 1..Len(config.extensions) :
                      ~StartsWith(config.extensions[i], <<".">>)
               \/ config.max_file_size_mb <= 0
               \/ config.max_file_size_mb > 100
               \/ config.max_tokens_per_part < 1000
               \/ config.max_tokens_per_part > 100000
        /\ config = DefaultConfig => pending = "none"

(***************************************************************************)
(* Claims about process_files on an empty list (SpecProc).                 *)
(***************************************************************************)
\* C22: on an empty list of file references process_files returns the empty
\* list at once: the pool is never open (pc is never "collect"), nothing is
\* prepared or submitted.
C22_EmptyInput ==
    files = <<>> =>
        /\ pc \in {"process", "returned"}
        /\ process_args = <<>>
        /\ futures = <<>>
        /\ pc = "returned" => results = <<>>

C22_Witness ==
    /\ pc = "returned"
    /\ files = <<>>
    /\ results = <<>>

(***************************************************************************)
(* The greedy rule of the original split_and_write_parts, and its          *)
(* comparison with _split_into_parts (SpecSplit).                          *)
(***************************************************************************)
\* approximate_token_count of the original script: len(text) // 4
approximate_token_count(text) == Len(text) \div CharsPerToken

\* One iteration of the loop of split_and_write_parts over the results.
GreedyStep(acc, content, max_tokens) ==
    LET closes == approximate_token_count(acc.current_content \o content) > max_tokens
                  /\ acc.current_content # <<>>
    IN  IF closes
        THEN [parts |-> Append(acc.parts, acc.current_content), current_content |-> content]
        ELSE [parts |-> acc.parts, current_content |-> acc.current_content \o content]

RECURSIVE GreedyLoop(_, _, _)
GreedyLoop(acc, rest, max_tokens) ==
    IF rest = <<>> THEN acc
    ELSE GreedyLoop(GreedyStep(acc, Head(rest), max_tokens), Tail(rest), max_tokens)

\* The parts split_and_write_parts makes of the results.
split_and_write_parts(contents, max_tokens) ==
    LET acc == GreedyLoop([parts |-> <<>>, current_content |-> <<>>], contents, max_tokens)
    IN  IF acc.current_content # <<>> THEN Append(acc.parts, acc.current_content)
        ELSE acc.parts

\* C23: _split_into_parts returns the partition of the greedy rule that
\* closes the current part exactly when the accumulator is non-empty and
\* floor(len(accumulator + snippet) / 4) > max_tokens_per_part.
C23_SameAsGreedyRule ==
    pc = "split_done" => parts = split_and_write_parts(snippets, max_tokens_per_part)

(***************************************************************************)
(* Claims about links and directories that may not be listed (SpecWalk).   *)
(***************************************************************************)
\* The directories above entry n.
RECURSIVE Above(_)
Above(n) == IF fs[n].parent = Root THEN {} ELSE {fs[n].parent} \cup Above(fs[n].parent)

\* C24: without scan_subfolders no directory other than the root has its
\* entries listed during scan_directory.
C24_OnlyRootListed ==
    ~scan_subfolders => listed \subseteq {Root}

\* C25: a symbolic link to a directory is walked like a directory: every
\* includable file below directories and links that no rule excludes and
\* that may be listed is yielded.
C25_LinksWalked ==
    pc \in {"scanned", "done"} =>
        \A n \in FileNodes :
            (/\ InWalkScope(n)
             /\ Includable(n)
             /\ \A d \in Above(n) : fs[d].listable
             /\ \E d \in Above(n) : fs[d].symlink) => RelParts(n) \in Range(files)

\* The lines of the tree that come from below directory d.
LinesBelow(d) == {k \in 2..Len(tree) : d \in Above(tree[k].entry)}

\* The placeholder lines of directory d.
Placeholders(d) ==
    {k \in 2..Len(tree) : tree[k].entry = d /\ tree[k].name = PermissionDenied}

\* C28: a directory that may not be listed gives the walk no file while the
\* files of the other directories are yielded as ever; in the tree its line
\* is followed by exactly one placeholder line, one level deeper, and
\* nothing from below it is rendered; neither operation leaves its course.
C28_ListingDeniedRecovered ==
    /\ \A k \in 1..Len(files) :
           \A n \in FileNodes :
               RelParts(n) = files[k] => \A d \in Above(n) : fs[d].listable
    /\ pc \in {"scanned", "done"} =>
           \A n \in FileNodes :
               (/\ InWalkScope(n)
                /\ Includable(n)
                /\ \A d \in Above(n) : fs[d].listable /\ ~fs[d].symlink)
                   => RelParts(n) \in Range(files)
    /\ pc = "done" =>
           \A k \in 2..Len(tree) :
               LET d == tree[k].entry
               IN  (fs[d].kind = "dir" /\ ~fs[d].listable
                        /\ tree[k].name # PermissionDenied) =>
                       /\ Placeholders(d) = {k + 1}
                       /\ Len(tree[k + 1].prefix) = Len(tree[k].prefix) + 1
                       /\ tree[k + 1].connector = "L-- "
                       /\ LinesBelow(d) = {}
    /\ pc \in {"scan", "walk", "scanned", "done"}

\* A finished run over a tree in which a directory that may not be listed
\* holds an includable file and is met before a file of the root that was
\* yielded, with the placeholder in the tree.
C28_Witness ==
    /\ pc = "done"
    /\ \E d \in 1..Len(fs) :
           /\ fs[d].kind = "dir" /\ ~fs[d].listable
           /\ \E n \in FileNodes : fs[n].parent = d /\ Includable(n)
           /\ Placeholders(d) # {}
           /\ \E m \in FileNodes : m > d /\ fs[m].parent = Root /\ files = <<RelParts(m)>>

(***************************************************************************)
(* Claims about the order of the stages (SpecPipeline).                    *)
(***************************************************************************)
\* The extractions that were dispatched and have neither completed nor failed.
Outstanding == {i \in 1..Len(futures) : futures[i].state \in {"pending", "running"}}

\* The output directory is as it was when the run began.
NothingWritten ==
    /\ documents = <<>>
    /\ disk_before = <<>>
    /\ created_files = <<>>
    /\ answers = <<>>

\* C26: process_files has returned only when every dispatched extraction
\* has completed or failed and was handed over; while one is outstanding
\* nothing is formatted or written, and no step changes the documents or
\* the output directory.
C26_ExtractionBeforeOutput ==
    /\ [](pc \notin {"process", "collect"} =>
              \A i \in 1..Len(futures) : futures[i].state = "collected")
    /\ [](Outstanding # {} => pc = "collect" /\ NothingWritten)
    /\ [][Outstanding # {} => (disk' = disk /\ documents' = documents)]_vars

C26_Witness ==
    /\ pc = "saved"
    /\ Len(files) = MaxFiles
    /\ Len(futures) = MaxFiles
    /\ Outstanding = {}
    /\ Len(created_files) >= 2

(***************************************************************************)
(* Claims about an interrupt during save_parts (SpecOut).                  *)
(***************************************************************************)
\* The file of part k is as it was before this call of save_parts.
Untouched(k) ==
    IF PartFileOf(k) \in DOMAIN disk_before
    THEN PartFileOf(k) \in DOMAIN disk /\ disk[PartFileOf(k)] = disk_before[PartFileOf(k)]
    ELSE PartFileOf(k) \notin DOMAIN disk

\* The file of part k holds the whole document of part k.
Complete(k) == PartFileOf(k) \in DOMAIN disk /\ disk[PartFileOf(k)] = documents[k]

\* C27: after an interrupt of save_parts every part file is untouched or
\* holds the whole of its part, and either every part was written or none.
C27_InterruptLeavesConsistentFiles ==
    (pc = "save_raised" /\ pending = "KeyboardInterrupt") =>
        /\ \A k \in 1..Len(documents) : Untouched(k) \/ Complete(k)
        /\ \/ \A k \in 1..Len(documents) : Untouched(k)
           \/ \A k \in 1..Len(documents) : Complete(k)

(***************************************************************************)
(* Claims about the clone directory and the worker pool                    *)
(***************************************************************************)
\* C29: in a run on a clone the temporary clone directory is there for as long
\* as an extraction worker is running: it is removed only after the pool has
\* shut down, also when the run is interrupted or fails during extraction.
C29_CloneKeptWhileWorkersRun ==
    ("temp_dir" \in DOMAIN repo_info /\ Running # {}) => temp_dir

(***************************************************************************)
(* Claims about the order of validation and side effects                   *)
(***************************************************************************)
\* The positions of run up to the end of validate_config.
BeforeValidated == {"parse", "load", "validate"}

\* What a failing configuration raises: ConfigurationError from the loading,
\* ValidationError from the overrides and from validate_config.
ConfigFailures == {"ConfigurationError", "ValidationError"}

\* What a run does to the file system or reads from the source: the clone, the
\* scan, the tree, the extraction, the formatting and the writing.
SideEffects ==
    {"temp_dir_created", "clone_failed", "scan", "no_files", "tree", "process",
     "no_records", "format", "save", "write"}

\* C30: run validates the configuration before any side effect: up to the end
\* of validate_config, and in a run that fails on its configuration, nothing is
\* cloned, the clone directory is neither made nor removed, nothing is scanned
\* and nothing is written; a --test run never extracts, formats or writes.
C30_ValidationBeforeSideEffects ==
    /\ [](pc \in BeforeValidated => events \cap SideEffects = {})
    /\ [](pending \in ConfigFailures => events \cap SideEffects = {})
    /\ []((("test" \in DOMAIN parsed_args) /\ parsed_args.test)
            => events \cap {"scan", "process", "format", "save", "write"} = {})
    /\ [][(pc \in BeforeValidated \/ pending' \in ConfigFailures)
            => (temp_dir' = temp_dir /\ repo_info' = repo_info /\ disk' = disk)]_vars

\* A --repo --test run over a clone directory left by an earlier run has failed
\* on its configuration: exit code 1, the directory still there.
C30_Witness ==
    /\ pc = "exit"
    /\ pending = "ValidationError"
    /\ exit_code = 1
    /\ "test" \in DOMAIN parsed_args
    /\ parsed_args.test /\ parsed_args.repo
    /\ temp_dir
    /\ events = {}

====
